---- MODULE Spec2Model ----
(***************************************************************************)
(* Model of the schema reconciliation of agent_system:                     *)
(* DatabaseManager.compare_and_sync_schema (src/core/database.py).         *)
(*                                                                         *)
(* The live database is a value `live` (the committed schema) and `txdb`   *)
(* (the schema as the open synchronisation transaction sees it).  One      *)
(* invocation of compare_and_sync_schema is a sequence of steps, one per   *)
(* database round trip; `stmts` records the round trips and `log` the      *)
(* logger calls of the current invocation.                                 *)
(***************************************************************************)
EXTENDS Integers, Sequences, FiniteSets, TLC

VARIABLES
    dialect,            \* conn.dialect.name of the engine
    ormv,               \* which declared model Base.metadata holds
    live,               \* committed live schema: table name -> table state
    txdb,               \* the schema seen through conn_sync
    txOpen,             \* conn_sync's transaction is open
    txFailed,           \* ... and a statement of it has failed (postgresql)
    connFailed,         \* a statement on the diff connection has failed (postgresql)
    pc,                 \* position of the invocation
    sync_db,            \* argument of the invocation
    db_table_names,     \* result of get_table_names
    scanQ,              \* declared tables still to compare
    mismatched_tables,  \* the set built by the comparison
    todo,               \* mismatched tables still to alter in Phase 2
    curTable,           \* table being altered
    cur,                \* its re-fetched state (current_db_*)
    plan,               \* operations of curTable still to attempt
    stmts,              \* database round trips of this invocation, in order
    log,                \* logger calls of this invocation, in order
    ret,                \* return value of the invocation
    prev,               \* summary of the previous invocation
    calls,              \* number of invocations started
    failures,           \* number of database failures injected so far
    ext,                \* number of changes made by another actor
    orm_type_str,       \* a declared type's lower-cased class name
    db_type_str,        \* a live type's lower-cased class name
    is_compatible,      \* the comparison's verdict on the two names
    is_compatible_for_alter,  \* Phase 2's verdict on the two names
    checked,            \* which of the two verdicts have been computed
    col_default,        \* str(orm_col_obj.default.arg) of a declared column, or None
    col_server_default, \* str(orm_col_obj.server_default.arg), or None
    db_col_default,     \* db_col_info['default'] of a live column
    orm_default_val,    \* the declared default the comparison uses
    db_default_val,     \* the live default the comparison uses
    default_mismatch,   \* a default mismatch is appended to column_mismatch_details
    default_pc,         \* position of the default comparison
    chk_tbl,            \* a declared table (orm_table_obj)
    chk_tab,            \* a live table, as the reflection queries report it
    chk_failed,         \* the reflection queries that raise
    chk_events,         \* the logger calls of the table-level comparisons
    chk_pc              \* position of the table-level comparisons

\* the variables of compare_and_sync_schema
syncVars == <<dialect, ormv, live, txdb, txOpen, txFailed, connFailed, pc, sync_db,
              db_table_names, scanQ, mismatched_tables, todo, curTable, cur, plan,
              stmts, log, ret, prev, calls, failures, ext>>

\* the variables of the type compatibility check taken on its own
typeVars == <<orm_type_str, db_type_str, is_compatible, is_compatible_for_alter, checked>>

\* the variables of the default comparison taken on its own
defaultVars == <<col_default, col_server_default, db_col_default, orm_default_val,
                 db_default_val, default_mismatch, default_pc>>

\* the variables of the table-level comparisons taken on their own
tableVars == <<chk_tbl, chk_tab, chk_failed, chk_events, chk_pc>>

\* the variables of one call of save_conversation
VARIABLES
    save_db,          \* what the database answers to the insert of attempts 1, 2, 3
    attempt_number,   \* attempts made so far in the call
    save_raised,      \* the outcome of every attempt made, in order
    save_result,      \* "none", "returned", or the exception the caller sees
    save_rows,        \* conversations stored by the call
    save_pc

saveVars == <<save_db, attempt_number, save_raised, save_result, save_rows, save_pc>>

\* the variables of an agent's in-memory conversation history
VARIABLES
    conversation_history,   \* the list of messages
    enable_memory,          \* config.features.enable_memory
    max_history,            \* config.features.max_history
    hist_before,            \* the list as the last call of add_to_history found it
    hist_trimmed,           \* whether the last call of add_to_history trimmed
    hist_added              \* calls of add_to_history so far

histVars == <<conversation_history, enable_memory, max_history, hist_before,
              hist_trimmed, hist_added>>

\* the variables of AgentFactory
VARIABLES
    agent_types,       \* _agent_types: type name -> agent class
    agent_instances,   \* _agent_instances: key -> instance
    next_instance,     \* the identity the next constructed instance gets
    fac_last,          \* the last factory call: operation, arguments, result
    fac_before         \* _agent_instances as the last factory call found it

factoryVars == <<agent_types, agent_instances, next_instance, fac_last, fac_before>>

\* the variables of one call of filter_new_data
VARIABLES
    flt_schema,     \* the table's live primary key, unique constraints and indexes
    flt_rows,       \* the rows stored in the table
    data_list,      \* the items handed to filter_new_data
    flt_result,     \* what the call gave: the exception raised, or the list returned
    flt_pc

filterVars == <<flt_schema, flt_rows, data_list, flt_result, flt_pc>>

\* the variables a run of compare_and_sync_schema leaves alone
auxVars == <<typeVars, defaultVars, tableVars, saveVars, histVars, factoryVars, filterVars>>

vars == <<syncVars, auxVars>>

-----------------------------------------------------------------------------
(* Bounds of the model *)

MaxDrift == 2       \* deviations of the initial live schema from the declared one
MaxFailures == 1    \* injected database failures (forced failures are not counted)
MaxCalls == 2       \* invocations of compare_and_sync_schema
MaxExt == 1         \* changes another actor makes while an invocation runs

-----------------------------------------------------------------------------
(* Generic helpers *)

Range(s) == {s[i] : i \in DOMAIN s}

\* t occurs in s as a contiguous substring (Python's `t in s`)
Contains(s, t) ==
    \E i \in 0..(Len(s) - Len(t)) :
        \A j \in 1..Len(t) : s[i + j] = t[j]

\* Python's None; the strings it is compared with are sequences of characters
None == <<"<None>">>

LowerLetters == <<"a","b","c","d","e","f","g","h","i","j","k","l","m",
                  "n","o","p","q","r","s","t","u","v","w","x","y","z">>
UpperLetters == <<"A","B","C","D","E","F","G","H","I","J","K","L","M",
                  "N","O","P","Q","R","S","T","U","V","W","X","Y","Z">>

\* str.upper()
Upper(s) ==
    [i \in DOMAIN s |->
        IF \E k \in DOMAIN LowerLetters : LowerLetters[k] = s[i]
        THEN UpperLetters[CHOOSE k \in DOMAIN LowerLetters : LowerLetters[k] = s[i]]
        ELSE s[i]]

-----------------------------------------------------------------------------
(* Types: class names, compiled names and class hierarchy of the SQLAlchemy *)
(* types that occur in the model.                                           *)

DeclTypes == {"Integer", "String"}
LiveTypes == {"INTEGER", "VARCHAR", "TEXT"}

\* type(x).__name__.lower()
ClassName(ty) ==
    CASE ty = "Integer" -> <<"i","n","t","e","g","e","r">>
      [] ty = "INTEGER" -> <<"i","n","t","e","g","e","r">>
      [] ty = "String"  -> <<"s","t","r","i","n","g">>
      [] ty = "VARCHAR" -> <<"v","a","r","c","h","a","r">>
      [] ty = "TEXT"    -> <<"t","e","x","t">>

\* x.compile(dialect), lower-cased
Compiled(ty) ==
    CASE ty \in {"Integer", "INTEGER"} -> "integer"
      [] ty \in {"String", "VARCHAR"}  -> "varchar"
      [] ty = "TEXT"                   -> "text"

\* the type object reflection returns for a column created from a declared type
Reflected(ty) ==
    CASE ty = "Integer" -> "INTEGER"
      [] ty = "String"  -> "VARCHAR"

\* isinstance(ty, (String, Text, Unicode, UnicodeText))
IsTextual(ty) == ty \in {"String", "VARCHAR", "TEXT"}

Keywords ==
    << <<"i","n","t">>, <<"c","h","a","r">>, <<"t","e","x","t">>,
       <<"d","a","t","e">>, <<"t","i","m","e">>, <<"b","o","o","l">>,
       <<"n","u","m">>, <<"f","l","o","a","t">>, <<"l","o","b">> >>

\* a keyword test that lets only the first keyword of the declared name count
SharedKeyword_FirstOnly(o, d) ==
    \E k \in DOMAIN Keywords :
        /\ Contains(o, Keywords[k]) /\ Contains(d, Keywords[k])
        /\ \A j \in 1..(k - 1) : ~Contains(o, Keywords[j])

SharedKeyword(o, d) ==
    \E k \in DOMAIN Keywords : Contains(o, Keywords[k]) /\ Contains(d, Keywords[k])

\* a comparison without the containment test
DiffCompatible_KeywordOnly(o, d) == SharedKeyword(o, d)

\* the comparison's verdict on two class names (the column is flagged when FALSE)
DiffCompatible(o, d) ==
    Contains(d, o) \/ Contains(o, d) \/ SharedKeyword(o, d)

\* Phase 2's verdict on two class names
AlterCompatible(o, d) ==
    (o = d) \/ SharedKeyword(o, d)

\* a Phase 2 that alters every pair its compatibility check rejects
NeedsTypeAlter_ClassOnly(ormTy, dbTy) ==
    ~AlterCompatible(ClassName(ormTy), ClassName(dbTy))

\* Phase 2 issues ALTER ... TYPE for a declared type and a live type
NeedsTypeAlter(ormTy, dbTy) ==
    /\ ~AlterCompatible(ClassName(ormTy), ClassName(dbTy))
    /\ Compiled(ormTy) # Compiled(dbTy)

\* isinstance(ty, family) for the declared types the USING heuristic tests
\* (BigInteger and SmallInteger derive from Integer, Float from Numeric)
IsInstance(ty, family) ==
    CASE family = "Integer"  -> ty \in {"Integer", "BigInteger", "SmallInteger"}
      [] family = "Numeric"  -> ty \in {"Numeric", "Float"}
      [] family = "Boolean"  -> ty = "Boolean"
      [] family = "Date"     -> ty = "Date"
      [] family = "DateTime" -> ty \in {"DateTime", "DateTimeTZ"}
      [] family = "JSON"     -> ty = "JSON"

\* a USING heuristic that registers no cast at all
UsingClause_NoCast(dial, ormTy, dbTy) == ""

\* the cast of the USING clause, "" when there is none          (lines 351-371)
UsingClause(dial, ormTy, dbTy) ==
    IF dial = "postgresql" /\ IsTextual(dbTy)
    THEN CASE IsInstance(ormTy, "Integer")  -> "INTEGER"
           [] IsInstance(ormTy, "Numeric")  -> "NUMERIC"
           [] IsInstance(ormTy, "Boolean")  -> "BOOLEAN"
           [] IsInstance(ormTy, "Date")     -> "DATE"
           [] IsInstance(ormTy, "DateTime") ->
                 IF ormTy = "DateTimeTZ" THEN "TIMESTAMP WITH TIME ZONE" ELSE "TIMESTAMP"
           [] IsInstance(ormTy, "JSON")     -> "JSONB"
           [] OTHER -> ""
    ELSE ""

-----------------------------------------------------------------------------
(* The declared model: Base.metadata.tables.  Three declared models are     *)
(* used; they differ in t2: column c is Integer NOT NULL ("int"), String    *)
(* NOT NULL ("str"), or Integer and nullable beside a second nullable       *)
(* column d ("opt").                                                          *)

TableNames == {"t1", "t2"}
TableOrder == <<"t1", "t2">>      \* iteration order of Base.metadata.tables
ColNames == {"a", "b", "c", "d", "x"}  \* x is declared nowhere
ColRank == [a |-> 1, b |-> 2, c |-> 3, d |-> 4, x |-> 5]

OrmColumn(n, ty, nullable, pk) ==
    [name |-> n, type |-> ty, nullable |-> nullable, primary_key |-> pk,
     default |-> None, server_default |-> None]

OrmTables(v) ==
    [t1 |-> [columns |-> << OrmColumn("a", "Integer", FALSE, TRUE),
                            OrmColumn("b", "Integer", TRUE, FALSE) >>,
             constraints |-> { [name |-> "uq_t1", columns |-> <<"b", "a">>] },
             indexes |-> { [name |-> "ix_t1_b", columns |-> <<"b">>, unique |-> FALSE] }],
     t2 |-> [columns |-> << OrmColumn("a", "Integer", FALSE, TRUE),
                            OrmColumn("c", IF v = "str" THEN "String" ELSE "Integer",
                                      v = "opt", FALSE) >>
                         \o (IF v = "opt" THEN << OrmColumn("d", "Integer", TRUE, FALSE) >>
                             ELSE << >>),
             constraints |-> {},
             indexes |-> {}]]

orm_tables == OrmTables(ormv)

OrmColumnNames(tbl) == {tbl.columns[i].name : i \in DOMAIN tbl.columns}
OrmPkColumns(tbl) == {tbl.columns[i].name : i \in {j \in DOMAIN tbl.columns : tbl.columns[j].primary_key}}
OrmCol(tbl, c) == CHOOSE col \in Range(tbl.columns) : col.name = c

\* tuple(sorted(names)): insertion sort on the rank of the names
RECURSIVE SortedInsert(_, _)
SortedInsert(s, n) ==
    IF s = << >> THEN <<n>>
    ELSE IF ColRank[n] <= ColRank[Head(s)] THEN <<n>> \o s
    ELSE <<Head(s)>> \o SortedInsert(Tail(s), n)

RECURSIVE SortedTuple(_)
SortedTuple(s) ==
    IF s = << >> THEN << >> ELSE SortedInsert(SortedTuple(Tail(s)), Head(s))

-----------------------------------------------------------------------------
(* The live schema.  A table state holds what the four reflection queries   *)
(* return: get_columns, get_pk_constraint, get_unique_constraints,          *)
(* get_indexes.                                                              *)

NoTable == [exists |-> FALSE, cols |-> << >>, pk |-> << >>, uqs |-> {}, idx |-> {}]

LiveColumn(ty, nullable, dflt) == [type |-> ty, nullable |-> nullable, default |-> dflt]

\* the table CREATE TABLE makes from a declared table, as reflection reports it
CreatedTable(tbl) ==
    [exists |-> TRUE,
     cols |-> [c \in OrmColumnNames(tbl) |->
                 LiveColumn(Reflected(OrmCol(tbl, c).type), OrmCol(tbl, c).nullable,
                            OrmCol(tbl, c).server_default)],
     pk |-> SortedTuple(SelectSeq([i \in DOMAIN tbl.columns |-> tbl.columns[i].name],
                                  LAMBDA n : n \in OrmPkColumns(tbl))),
     uqs |-> {[name |-> u.name, column_names |-> u.columns] : u \in tbl.constraints},
     idx |-> {[name |-> i.name, column_names |-> i.columns, unique |-> i.unique] : i \in tbl.indexes}]

Mentions(seq, c) == c \in Range(seq)

\* a function without the point c
Without(f, c) == [k \in (DOMAIN f) \ {c} |-> f[k]]
\* a function with the point c set to v
With(f, c, v) == [k \in (DOMAIN f) \cup {c} |-> IF k = c THEN v ELSE f[k]]

(* Deviations of a live table from the declared one: what an administrator  *)
(* or an older release of the application left behind.                       *)
Deviations ==
    [kind : {"drop_table"}, tbl : TableNames]
    \cup [kind : {"drop_column"}, tbl : {"t1"}, col : {"b"}]
    \cup [kind : {"drop_column"}, tbl : {"t2"}, col : {"c", "d"}]
    \cup [kind : {"retype"}, tbl : {"t1"}, col : {"b"}, type : {"VARCHAR"}]
    \cup [kind : {"retype"}, tbl : {"t2"}, col : {"c"}, type : {"TEXT"}]
    \cup [kind : {"flip_nullable"}, tbl : {"t1"}, col : {"b"}]
    \cup [kind : {"flip_nullable"}, tbl : {"t2"}, col : {"c"}]
    \cup [kind : {"set_default"}, tbl : {"t1"}, col : {"b"}]
    \cup [kind : {"drop_pk", "drop_uq", "drop_idx", "extra_column", "rename_idx"}, tbl : {"t1"}]

ApplyDeviation(tab, d) ==
    IF ~tab.exists THEN tab
    ELSE CASE d.kind = "drop_table" -> NoTable
      [] d.kind = "drop_column" ->
            IF d.col \notin DOMAIN tab.cols THEN tab
            ELSE [tab EXCEPT !.cols = Without(@, d.col),
                             !.uqs = {u \in @ : ~Mentions(u.column_names, d.col)},
                             !.idx = {i \in @ : ~Mentions(i.column_names, d.col)}]
      [] d.kind = "retype" ->
            IF d.col \notin DOMAIN tab.cols THEN tab
            ELSE [tab EXCEPT !.cols[d.col].type = d.type]
      [] d.kind = "flip_nullable" ->
            IF d.col \notin DOMAIN tab.cols THEN tab
            ELSE [tab EXCEPT !.cols[d.col].nullable = ~@]
      [] d.kind = "set_default" ->
            IF d.col \notin DOMAIN tab.cols THEN tab
            ELSE [tab EXCEPT !.cols[d.col].default = <<"0">>]
      [] d.kind = "drop_pk" -> [tab EXCEPT !.pk = << >>]
      [] d.kind = "drop_uq" -> [tab EXCEPT !.uqs = {}]
      [] d.kind = "drop_idx" -> [tab EXCEPT !.idx = {}]
      [] d.kind = "extra_column" ->
            [tab EXCEPT !.cols = With(@, "x", LiveColumn("TEXT", TRUE, None))]
      [] d.kind = "rename_idx" ->
            [tab EXCEPT !.idx = {[name |-> "ix_other", column_names |-> i.column_names,
                                  unique |-> TRUE] : i \in @}]

Deviate(db, d) == [db EXCEPT ![d.tbl] = ApplyDeviation(@, d)]

ConformingDB(v) == [t \in TableNames |-> CreatedTable(OrmTables(v)[t])]

RECURSIVE DriftedDBs(_, _)
DriftedDBs(v, n) ==
    IF n = 0 THEN {ConformingDB(v)}
    ELSE LET less == DriftedDBs(v, n - 1)
         IN  less \cup {Deviate(db, d) : db \in less, d \in Deviations}


-----------------------------------------------------------------------------
(* The comparison of one declared table with the live one (lines 84-257).   *)

LogEvent(lvl, ev, t, tgt, info) ==
    [level |-> lvl, event |-> ev, tbl |-> t, tgt |-> tgt, info |-> info]

Stmt(op, t, tgt, arg, ok) ==
    [op |-> op, tbl |-> t, tgt |-> tgt, arg |-> arg, ok |-> ok]

\* str(default.arg), else str(server_default.arg), else None; then 'None' -> None
OrmDefaultVal(ocol) ==
    LET raw == IF ocol.default # None THEN ocol.default
               ELSE IF ocol.server_default # None THEN ocol.server_default
               ELSE None
    IN  IF raw = <<"N","o","n","e">> THEN None ELSE raw

DbDefaultVal(d) == IF d = <<"N","o","n","e">> THEN None ELSE d

\* 'NULL' in d.upper()
UpperContainsNULL(d) == Contains(Upper(d), <<"N","U","L","L">>)

DefaultMismatch(o, d) ==
    /\ o # d
    /\ ~(o = None /\ d # None /\ UpperContainsNULL(d))

\* column_mismatch_details of one column, as the set of the kinds appended
ColumnMismatchDetails(ocol, dcol) ==
    (IF ~DiffCompatible(ClassName(ocol.type), ClassName(dcol.type)) THEN {"type"} ELSE {})
    \cup (IF ocol.nullable # dcol.nullable THEN {"nullable"} ELSE {})
    \cup (IF DefaultMismatch(OrmDefaultVal(ocol), DbDefaultVal(dcol.default))
          THEN {"default"} ELSE {})

\* the warnings of the per-column loop, in the order of the declared columns
RECURSIVE ColumnWarnings(_, _, _)
ColumnWarnings(t, ocols, tab) ==
    IF ocols = << >> THEN << >>
    ELSE LET ocol == Head(ocols)
             d == ColumnMismatchDetails(ocol, tab.cols[ocol.name])
         IN  (IF d # {} THEN <<LogEvent("warning", "column_mismatch", t, ocol.name, d)>>
              ELSE << >>)
             \o ColumnWarnings(t, Tail(ocols), tab)

\* a column comparison that takes only absent declared columns for a
\* difference of the column sets
CompareColumns_MissingOnly(t, tbl, tab, failed) ==
    IF failed THEN <<LogEvent("error", "inspect_columns_error", t, "", {})>>
    ELSE IF ~(OrmColumnNames(tbl) \subseteq DOMAIN tab.cols)
         THEN <<LogEvent("warning", "column_set_mismatch", t, "", {})>>
         ELSE ColumnWarnings(t, tbl.columns, tab)

\* a column comparison that goes on to the attributes of the columns both
\* sides have when the column sets differ
CompareColumns_AlwaysAttributes(t, tbl, tab, failed) ==
    IF failed THEN <<LogEvent("error", "inspect_columns_error", t, "", {})>>
    ELSE (IF DOMAIN tab.cols # OrmColumnNames(tbl)
          THEN <<LogEvent("warning", "column_set_mismatch", t, "", {})>>
          ELSE << >>)
         \o ColumnWarnings(t, SelectSeq(tbl.columns, LAMBDA oc : oc.name \in DOMAIN tab.cols), tab)

\* lines 91-198: the logger calls of the column comparison; the table is
\* flagged when there is any
CompareColumns(t, tbl, tab, failed) ==
    IF failed THEN <<LogEvent("error", "inspect_columns_error", t, "", {})>>
    ELSE IF DOMAIN tab.cols # OrmColumnNames(tbl)
         THEN <<LogEvent("warning", "column_set_mismatch", t, "", {})>>
         ELSE ColumnWarnings(t, tbl.columns, tab)

\* a primary-key comparison whose failed query leaves the table unflagged
ComparePrimaryKey_Unflagged(t, tbl, tab, failed) ==
    IF failed \/ OrmPkColumns(tbl) = Range(tab.pk) THEN << >>
    ELSE <<LogEvent("warning", "primary_key_mismatch", t, "", {})>>

\* a primary-key comparison that takes the order of the columns into account
ComparePrimaryKey_Ordered(t, tbl, tab, failed) ==
    IF failed THEN <<LogEvent("error", "primary_key_error", t, "", {})>>
    ELSE IF SelectSeq([i \in DOMAIN tbl.columns |-> tbl.columns[i].name],
                      LAMBDA n : n \in OrmPkColumns(tbl)) # tab.pk
         THEN <<LogEvent("warning", "primary_key_mismatch", t, "", {})>>
         ELSE << >>

\* lines 202-213
ComparePrimaryKey(t, tbl, tab, failed) ==
    IF failed THEN <<LogEvent("error", "primary_key_error", t, "", {})>>
    ELSE IF OrmPkColumns(tbl) # Range(tab.pk)
         THEN <<LogEvent("warning", "primary_key_mismatch", t, "", {})>>
         ELSE << >>

OrmUniqueSet(tbl) == {SortedTuple(u.columns) : u \in tbl.constraints}
OrmIndexSet(tbl) == {SortedTuple(i.columns) : i \in tbl.indexes}
DbTupleSet(S) == {SortedTuple(e.column_names) : e \in S}

\* a unique-constraint comparison on the column tuples as they come
CompareUniqueConstraints_Unsorted(t, tbl, tab, failed) ==
    IF failed THEN <<LogEvent("error", "unique_constraints_error", t, "", {})>>
    ELSE IF {u.columns : u \in tbl.constraints} # {e.column_names : e \in tab.uqs}
         THEN <<LogEvent("warning", "unique_constraints_mismatch", t, "", {})>>
         ELSE << >>

\* lines 216-234
CompareUniqueConstraints(t, tbl, tab, failed) ==
    IF failed THEN <<LogEvent("error", "unique_constraints_error", t, "", {})>>
    ELSE IF OrmUniqueSet(tbl) # DbTupleSet(tab.uqs)
         THEN <<LogEvent("warning", "unique_constraints_mismatch", t, "", {})>>
         ELSE << >>

\* an index comparison that also compares the uniqueness flags
CompareIndexes_WithUnique(t, tbl, tab, failed) ==
    IF failed THEN <<LogEvent("error", "indexes_error", t, "", {})>>
    ELSE IF {<<SortedTuple(i.columns), i.unique>> : i \in tbl.indexes}
               # {<<SortedTuple(e.column_names), e.unique>> : e \in tab.idx}
         THEN <<LogEvent("warning", "indexes_mismatch", t, "", {})>>
         ELSE << >>

\* lines 237-257
CompareIndexes(t, tbl, tab, failed) ==
    IF failed THEN <<LogEvent("error", "indexes_error", t, "", {})>>
    ELSE IF OrmIndexSet(tbl) # DbTupleSet(tab.idx)
         THEN <<LogEvent("warning", "indexes_mismatch", t, "", {})>>
         ELSE << >>

Queries == <<"get_columns", "get_pk_constraint", "get_unique_constraints", "get_indexes">>

\* the logger calls of the comparison of an existing table; F is the set of the
\* reflection queries that fail
CompareTable(t, tbl, tab, F) ==
    CompareColumns(t, tbl, tab, "get_columns" \in F)
    \o ComparePrimaryKey(t, tbl, tab, "get_pk_constraint" \in F)
    \o CompareUniqueConstraints(t, tbl, tab, "get_unique_constraints" \in F)
    \o CompareIndexes(t, tbl, tab, "get_indexes" \in F)

QueryStmts(t, F) == [i \in 1..4 |-> Stmt(Queries[i], t, "", "", Queries[i] \notin F)]


-----------------------------------------------------------------------------
(* Phase 2: the operations of one table, decided on its re-fetched state    *)
(* (lines 277-414).                                                          *)

NoCur == [cols |-> << >>, uqs |-> {}, idx |-> {}]

\* current_db_columns_info, current_db_unique_constraints_set, current_db_indexes_set
Refetched(tab) ==
    [cols |-> tab.cols, uqs |-> DbTupleSet(tab.uqs), idx |-> DbTupleSet(tab.idx)]

Op(op, t, tgt, arg) == [op |-> op, tbl |-> t, tgt |-> tgt, arg |-> arg]

\* a Phase 2 whose ADD COLUMN never carries NOT NULL
ColumnOps_AddNullable(dial, t, ocol, c) ==
    IF ocol.name \notin DOMAIN c.cols THEN <<Op("add_column", t, ocol.name, "")>>
    ELSE LET dcol == c.cols[ocol.name]
         IN  (IF NeedsTypeAlter(ocol.type, dcol.type)
              THEN <<Op("alter_type", t, ocol.name, UsingClause(dial, ocol.type, dcol.type))>>
              ELSE << >>)
             \o (IF ocol.nullable # dcol.nullable
                 THEN <<Op("alter_nullable", t, ocol.name,
                           IF ocol.nullable THEN "DROP NOT NULL" ELSE "SET NOT NULL")>>
                 ELSE << >>)

\* a Phase 2 that adds no column
ColumnOps_NoAdd(dial, t, ocol, c) ==
    IF ocol.name \notin DOMAIN c.cols THEN << >>
    ELSE LET dcol == c.cols[ocol.name]
         IN  (IF NeedsTypeAlter(ocol.type, dcol.type)
              THEN <<Op("alter_type", t, ocol.name, UsingClause(dial, ocol.type, dcol.type))>>
              ELSE << >>)
             \o (IF ocol.nullable # dcol.nullable
                 THEN <<Op("alter_nullable", t, ocol.name,
                           IF ocol.nullable THEN "DROP NOT NULL" ELSE "SET NOT NULL")>>
                 ELSE << >>)

\* a Phase 2 that leaves the nullability of a column alone when it alters
\* the column's type
ColumnOps_TypeOrNullable(dial, t, ocol, c) ==
    IF ocol.name \notin DOMAIN c.cols
    THEN <<Op("add_column", t, ocol.name, IF ocol.nullable THEN "" ELSE "NOT NULL")>>
    ELSE LET dcol == c.cols[ocol.name]
         IN  IF NeedsTypeAlter(ocol.type, dcol.type)
             THEN <<Op("alter_type", t, ocol.name, UsingClause(dial, ocol.type, dcol.type))>>
             ELSE IF ocol.nullable # dcol.nullable
                  THEN <<Op("alter_nullable", t, ocol.name,
                            IF ocol.nullable THEN "DROP NOT NULL" ELSE "SET NOT NULL")>>
                  ELSE << >>

\* lines 299-388 for one declared column
ColumnOps(dial, t, ocol, c) ==
    IF ocol.name \notin DOMAIN c.cols
    THEN <<Op("add_column", t, ocol.name, IF ocol.nullable THEN "" ELSE "NOT NULL")>>
    ELSE LET dcol == c.cols[ocol.name]
         IN  (IF NeedsTypeAlter(ocol.type, dcol.type)
              THEN <<Op("alter_type", t, ocol.name, UsingClause(dial, ocol.type, dcol.type))>>
              ELSE << >>)
             \o (IF ocol.nullable # dcol.nullable
                 THEN <<Op("alter_nullable", t, ocol.name,
                           IF ocol.nullable THEN "DROP NOT NULL" ELSE "SET NOT NULL")>>
                 ELSE << >>)

RECURSIVE AllColumnOps(_, _, _, _)
AllColumnOps(dial, t, ocols, c) ==
    IF ocols = << >> THEN << >>
    ELSE ColumnOps(dial, t, Head(ocols), c) \o AllColumnOps(dial, t, Tail(ocols), c)

\* some enumeration of a set (the iteration order of a Python set)
RECURSIVE SeqOf(_)
SeqOf(S) == IF S = {} THEN << >> ELSE LET e == CHOOSE x \in S : TRUE IN <<e>> \o SeqOf(S \ {e})

\* lines 391-399
UniqueOps(t, tbl, c) ==
    LET missing == {u \in tbl.constraints : SortedTuple(u.columns) \notin c.uqs}
        s == SeqOf(missing)
    IN  [i \in DOMAIN s |-> Op("add_unique", t, s[i].name, "")]

\* lines 402-414
IndexOps(t, tbl, c) ==
    LET missing == {i \in tbl.indexes : SortedTuple(i.columns) \notin c.idx}
        s == SeqOf(missing)
    IN  [i \in DOMAIN s |-> Op("add_index", t, s[i].name, "")]

\* the operations of a Phase 2 that decides without the table's re-read state
TablePlan_Unread(dial, t, tbl, c) ==
    AllColumnOps(dial, t, tbl.columns, NoCur) \o UniqueOps(t, tbl, NoCur) \o IndexOps(t, tbl, NoCur)

\* a Phase 2 that adds the indexes first, then the unique constraints, then
\* goes through the columns
TablePlan_IndexesFirst(dial, t, tbl, c) ==
    IndexOps(t, tbl, c) \o UniqueOps(t, tbl, c) \o AllColumnOps(dial, t, tbl.columns, c)

\* the operations Phase 2 attempts for table t, in order
TablePlan(dial, t, tbl, c) ==
    AllColumnOps(dial, t, tbl.columns, c) \o UniqueOps(t, tbl, c) \o IndexOps(t, tbl, c)

-----------------------------------------------------------------------------
(* The database's side of a DDL statement.                                  *)

OrmConstraint(tbl, n) == CHOOSE u \in tbl.constraints : u.name = n
OrmIndex(tbl, n) == CHOOSE i \in tbl.indexes : i.name = n

\* the statement cannot succeed on this table, whatever its rows
Rejected(dial, tbl, tab, op) ==
    \/ ~tab.exists
    \/ /\ op.op = "add_column"
       /\ \/ op.tgt \in DOMAIN tab.cols
          \/ dial = "sqlite" /\ op.arg = "NOT NULL"
    \/ /\ op.op \in {"alter_type", "alter_nullable"}
       /\ \/ op.tgt \notin DOMAIN tab.cols
          \/ dial = "sqlite"
    \/ /\ op.op = "add_unique"
       /\ \/ dial = "sqlite"
          \/ \E u \in tab.uqs : u.name = op.tgt
          \/ ~(Range(OrmConstraint(tbl, op.tgt).columns) \subseteq DOMAIN tab.cols)
    \/ /\ op.op = "add_index"
       /\ \/ \E i \in tab.idx : i.name = op.tgt
          \/ ~(Range(OrmIndex(tbl, op.tgt).columns) \subseteq DOMAIN tab.cols)

\* a statement that also drops the live columns that are not declared
Applied_DropsUndeclared(tbl, tab, op) ==
    LET keep == (DOMAIN tab.cols \cap OrmColumnNames(tbl))
                   \cup (IF op.op = "add_column" THEN {op.tgt} ELSE {})
    IN  [exists |-> TRUE,
         cols |-> [c \in keep |->
                     IF c \in DOMAIN tab.cols THEN tab.cols[c]
                     ELSE LiveColumn(Reflected(OrmCol(tbl, c).type), OrmCol(tbl, c).nullable, None)],
         pk |-> tab.pk, uqs |-> tab.uqs, idx |-> tab.idx]

\* the table after the statement succeeded
Applied(tbl, tab, op) ==
    CASE op.op = "add_column" ->
            [tab EXCEPT !.cols = With(@, op.tgt,
                LiveColumn(Reflected(OrmCol(tbl, op.tgt).type), OrmCol(tbl, op.tgt).nullable, None))]
      [] op.op = "alter_type" ->
            [tab EXCEPT !.cols[op.tgt].type = Reflected(OrmCol(tbl, op.tgt).type)]
      [] op.op = "alter_nullable" ->
            [tab EXCEPT !.cols[op.tgt].nullable = OrmCol(tbl, op.tgt).nullable]
      [] op.op = "add_unique" ->
            [tab EXCEPT !.uqs = @ \cup {[name |-> op.tgt,
                                        column_names |-> OrmConstraint(tbl, op.tgt).columns]}]
      [] op.op = "add_index" ->
            [tab EXCEPT !.idx = @ \cup {[name |-> op.tgt,
                                        column_names |-> OrmIndex(tbl, op.tgt).columns,
                                        unique |-> OrmIndex(tbl, op.tgt).unique]}]

\* DDL of this dialect takes part in the enclosing transaction
TransactionalDDL(dial) == dial = "postgresql"
\* a failed statement leaves the transaction unusable until it is rolled back
FailureAbortsTx(dial) == dial = "postgresql"


-----------------------------------------------------------------------------
(* The state machine *)

Dialects == {"postgresql", "sqlite"}

NoPrev == [valid |-> FALSE, sync_db |-> FALSE, mismatched |-> {}, ret |-> FALSE,
           stmts |-> << >>, log |-> << >>]

\* no type pair is under examination
TypeCheckIdle ==
    /\ orm_type_str = << >>
    /\ db_type_str = << >>
    /\ is_compatible = FALSE
    /\ is_compatible_for_alter = FALSE
    /\ checked = {}

\* no default is under examination
DefaultCheckIdle ==
    /\ col_default = None
    /\ col_server_default = None
    /\ db_col_default = None
    /\ orm_default_val = None
    /\ db_default_val = None
    /\ default_mismatch = FALSE
    /\ default_pc = "idle"

\* no table is under examination on its own
TableCheckIdle ==
    /\ chk_tbl = OrmTables("int")["t1"]
    /\ chk_tab = NoTable
    /\ chk_failed = {}
    /\ chk_events = << >>
    /\ chk_pc = "idle"

\* no call of save_conversation is under way
SaveIdle ==
    /\ save_db = << >>
    /\ attempt_number = 0
    /\ save_raised = << >>
    /\ save_result = "none"
    /\ save_rows = 0
    /\ save_pc = "idle"

\* no agent's history is under examination
HistoryIdle ==
    /\ conversation_history = << >>
    /\ enable_memory = FALSE
    /\ max_history = 0
    /\ hist_before = << >>
    /\ hist_trimmed = FALSE
    /\ hist_added = 0

\* lines 9-12: the agent classes registered at import
BuiltinAgentTypes ==
    (<<"c", "h", "a", "t">> :> "ChatAgent") @@
    (<<"a", "n", "a", "l", "y", "s", "i", "s">> :> "AnalysisAgent")

NoFactoryCall ==
    [op |-> "none", config_path |-> << >>, agent_type |-> << >>, key |-> << >>,
     ok |-> FALSE, instance |-> 0, error |-> "none", created |-> FALSE]

\* lines 9-14: the factory as the class body leaves it, no call made
FactoryIdle ==
    /\ agent_types = BuiltinAgentTypes
    /\ agent_instances = << >>
    /\ next_instance = 1
    /\ fac_last = NoFactoryCall
    /\ fac_before = << >>

NoFilterResult == [raised |-> "none", value |-> << >>]

\* no call of filter_new_data is under way
FilterIdle ==
    /\ flt_schema = [pk |-> {}, uqs |-> {}, idx |-> {}, fails |-> FALSE]
    /\ flt_rows = {}
    /\ data_list = << >>
    /\ flt_result = NoFilterResult
    /\ flt_pc = "idle"

InitWith(v) ==
    /\ dialect \in Dialects
    /\ ormv = v
    /\ live \in DriftedDBs(v, MaxDrift)
    /\ txdb = live
    /\ txOpen = FALSE
    /\ txFailed = FALSE
    /\ connFailed = FALSE
    /\ pc = "idle"
    /\ sync_db = FALSE
    /\ db_table_names = {}
    /\ scanQ = << >>
    /\ mismatched_tables = {}
    /\ todo = {}
    /\ curTable = ""
    /\ cur = NoCur
    /\ plan = << >>
    /\ stmts = << >>
    /\ log = << >>
    /\ ret = FALSE
    /\ prev = NoPrev
    /\ calls = 0
    /\ failures = 0
    /\ ext = 0
    /\ FilterIdle
    /\ FactoryIdle
    /\ HistoryIdle
    /\ SaveIdle
    /\ TypeCheckIdle
    /\ DefaultCheckIdle
    /\ TableCheckIdle

Init == InitWith("int")

\* an invocation that starts with the mismatched set of the one before
Call_KeepsMismatched(s) ==
    /\ pc \in {"idle", "done"}
    /\ calls < MaxCalls
    /\ calls' = calls + 1
    /\ prev' = IF pc = "done"
               THEN [valid |-> TRUE, sync_db |-> sync_db, mismatched |-> mismatched_tables,
                     ret |-> ret, stmts |-> stmts, log |-> log]
               ELSE prev
    /\ sync_db' = s
    /\ pc' = "list"
    /\ db_table_names' = {}
    /\ scanQ' = << >>
    /\ mismatched_tables' = mismatched_tables
    /\ todo' = {}
    /\ curTable' = ""
    /\ cur' = NoCur
    /\ plan' = << >>
    /\ stmts' = << >>
    /\ log' = <<LogEvent("info", "comparing", "", "", {})>>
    /\ ret' = FALSE
    /\ connFailed' = FALSE
    /\ UNCHANGED auxVars
    /\ UNCHANGED <<dialect, ormv, live, txdb, txOpen, txFailed, failures, ext>>

\* a caller invokes compare_and_sync_schema(sync_db = s)         (lines 71-75)
Call(s) ==
    /\ pc \in {"idle", "done"}
    /\ calls < MaxCalls
    /\ calls' = calls + 1
    /\ prev' = IF pc = "done"
               THEN [valid |-> TRUE, sync_db |-> sync_db, mismatched |-> mismatched_tables,
                     ret |-> ret, stmts |-> stmts, log |-> log]
               ELSE prev
    /\ sync_db' = s
    /\ pc' = "list"
    /\ db_table_names' = {}
    /\ scanQ' = << >>
    /\ mismatched_tables' = {}
    /\ todo' = {}
    /\ curTable' = ""
    /\ cur' = NoCur
    /\ plan' = << >>
    /\ stmts' = << >>
    /\ log' = <<LogEvent("info", "comparing", "", "", {})>>
    /\ ret' = FALSE
    /\ connFailed' = FALSE
    /\ UNCHANGED auxVars
    /\ UNCHANGED <<dialect, ormv, live, txdb, txOpen, txFailed, failures, ext>>

\* an outermost handler that logs nothing
TopLevelError_Silent(l) == l

\* the handler of the outermost try                              (lines 422-424)
TopLevelError(l) == Append(l, LogEvent("error", "top_level_error", "", "", {}))

\* get_table_names                                                (lines 75-82)
ListTables ==
    /\ pc = "list"
    /\ \/ /\ db_table_names' = {t \in TableNames : live[t].exists}
          /\ stmts' = Append(stmts, Stmt("get_table_names", "", "", "", TRUE))
          /\ scanQ' = TableOrder
          /\ pc' = "scan"
          /\ UNCHANGED <<failures, log, ret>>
       \/ /\ failures < MaxFailures
          /\ failures' = failures + 1
          /\ stmts' = Append(stmts, Stmt("get_table_names", "", "", "", FALSE))
          /\ log' = TopLevelError(log)
          /\ ret' = FALSE
          /\ pc' = "done"
          /\ UNCHANGED <<db_table_names, scanQ>>
    /\ UNCHANGED auxVars
    /\ UNCHANGED <<dialect, ormv, live, txdb, txOpen, txFailed, connFailed, sync_db,
                   mismatched_tables, todo, curTable, cur, plan, prev, calls, ext>>

Suffix(i) == {Queries[j] : j \in i..Len(Queries)}

\* the sets of reflection queries that may fail for one table: on a connection
\* whose transaction is aborted every query fails; a failure costs one unit of
\* the failure budget
FailureSets(dial, budget, aborted) ==
    IF aborted THEN {Range(Queries)}
    ELSE {{}} \cup
         (IF budget <= 0 THEN {}
          ELSE IF FailureAbortsTx(dial) THEN {Suffix(i) : i \in DOMAIN Queries}
          ELSE {F \in SUBSET Range(Queries) : F # {} /\ Cardinality(F) <= budget})

FailureCost(dial, F, aborted) ==
    IF aborted \/ F = {} THEN 0
    ELSE IF FailureAbortsTx(dial) THEN 1 ELSE Cardinality(F)

\* a loop iteration that flags a missing table without a logger call
ScanTable_MissingUnlogged ==
    /\ pc = "scan"
    /\ scanQ # << >>
    /\ LET t == Head(scanQ) IN
         /\ IF t \notin db_table_names
            THEN /\ mismatched_tables' = mismatched_tables \cup {t}
                 /\ UNCHANGED <<log, stmts, failures, connFailed>>
            ELSE \E F \in FailureSets(dialect, MaxFailures - failures, connFailed) :
                   LET evs == CompareTable(t, orm_tables[t], live[t], F) IN
                     /\ log' = log \o evs
                     /\ mismatched_tables' =
                          IF evs # << >> THEN mismatched_tables \cup {t} ELSE mismatched_tables
                     /\ stmts' = stmts \o QueryStmts(t, F)
                     /\ failures' = failures + FailureCost(dialect, F, connFailed)
                     /\ connFailed' = (connFailed \/ (F # {} /\ FailureAbortsTx(dialect)))
         /\ scanQ' = Tail(scanQ)
         /\ pc' = IF Tail(scanQ) = << >> THEN "decide" ELSE "scan"
    /\ UNCHANGED auxVars
    /\ UNCHANGED <<dialect, ormv, live, txdb, txOpen, txFailed, sync_db, db_table_names,
                   todo, curTable, cur, plan, ret, prev, calls, ext>>

\* a loop iteration without the continue after flagging a missing table: the
\* four reflection queries are issued for it and fail
ScanTable_NoContinue ==
    /\ pc = "scan"
    /\ scanQ # << >>
    /\ LET t == Head(scanQ) IN
         /\ IF t \notin db_table_names
            THEN /\ log' = Append(log, LogEvent("warning", "table_missing", t, "", {}))
                            \o CompareTable(t, orm_tables[t], live[t], Range(Queries))
                 /\ mismatched_tables' = mismatched_tables \cup {t}
                 /\ stmts' = stmts \o QueryStmts(t, Range(Queries))
                 /\ connFailed' = (connFailed \/ FailureAbortsTx(dialect))
                 /\ UNCHANGED failures
            ELSE \E F \in FailureSets(dialect, MaxFailures - failures, connFailed) :
                   LET evs == CompareTable(t, orm_tables[t], live[t], F) IN
                     /\ log' = log \o evs
                     /\ mismatched_tables' =
                          IF evs # << >> THEN mismatched_tables \cup {t} ELSE mismatched_tables
                     /\ stmts' = stmts \o QueryStmts(t, F)
                     /\ failures' = failures + FailureCost(dialect, F, connFailed)
                     /\ connFailed' = (connFailed \/ (F # {} /\ FailureAbortsTx(dialect)))
         /\ scanQ' = Tail(scanQ)
         /\ pc' = IF Tail(scanQ) = << >> THEN "decide" ELSE "scan"
    /\ UNCHANGED auxVars
    /\ UNCHANGED <<dialect, ormv, live, txdb, txOpen, txFailed, sync_db, db_table_names,
                   todo, curTable, cur, plan, ret, prev, calls, ext>>

\* one iteration of the loop over the declared tables             (lines 84-257)
ScanTable ==
    /\ pc = "scan"
    /\ scanQ # << >>
    /\ LET t == Head(scanQ) IN
         /\ IF t \notin db_table_names
            THEN /\ log' = Append(log, LogEvent("warning", "table_missing", t, "", {}))
                 /\ mismatched_tables' = mismatched_tables \cup {t}
                 /\ UNCHANGED <<stmts, failures, connFailed>>
            ELSE \E F \in FailureSets(dialect, MaxFailures - failures, connFailed) :
                   LET evs == CompareTable(t, orm_tables[t], live[t], F) IN
                     /\ log' = log \o evs
                     /\ mismatched_tables' =
                          IF evs # << >> THEN mismatched_tables \cup {t} ELSE mismatched_tables
                     /\ stmts' = stmts \o QueryStmts(t, F)
                     /\ failures' = failures + FailureCost(dialect, F, connFailed)
                     /\ connFailed' = (connFailed \/ (F # {} /\ FailureAbortsTx(dialect)))
         /\ scanQ' = Tail(scanQ)
         /\ pc' = IF Tail(scanQ) = << >> THEN "decide" ELSE "scan"
    /\ UNCHANGED auxVars
    /\ UNCHANGED <<dialect, ormv, live, txdb, txOpen, txFailed, sync_db, db_table_names,
                   todo, curTable, cur, plan, ret, prev, calls, ext>>

\* an end of the comparison that goes on to Phase 1 whatever sync_db says
Decide_SyncAlways ==
    /\ pc = "decide"
    /\ IF mismatched_tables = {}
       THEN /\ log' = Append(log, LogEvent("info", "consistent", "", "", {}))
            /\ ret' = TRUE
            /\ pc' = "done"
       ELSE /\ log' = log \o <<LogEvent("warning", "schema_mismatch", "", "", mismatched_tables),
                               LogEvent("info", "attempting_sync", "", "", {})>>
            /\ ret' = ret
            /\ pc' = "create"
    /\ UNCHANGED auxVars
    /\ UNCHANGED <<dialect, ormv, live, txdb, txOpen, txFailed, connFailed, sync_db,
                   db_table_names, scanQ, mismatched_tables, todo, curTable, cur, plan,
                   stmts, prev, calls, failures, ext>>

\* an end of the comparison that reads the flag the wrong way round
Decide_FlagInverted ==
    /\ pc = "decide"
    /\ IF mismatched_tables = {}
       THEN /\ log' = Append(log, LogEvent("info", "consistent", "", "", {}))
            /\ ret' = TRUE
            /\ pc' = "done"
       ELSE IF sync_db
       THEN /\ log' = log \o <<LogEvent("warning", "schema_mismatch", "", "", mismatched_tables),
                               LogEvent("info", "sync_disabled", "", "", {})>>
            /\ ret' = FALSE
            /\ pc' = "done"
       ELSE /\ log' = log \o <<LogEvent("warning", "schema_mismatch", "", "", mismatched_tables),
                               LogEvent("info", "attempting_sync", "", "", {})>>
            /\ ret' = ret
            /\ pc' = "create"
    /\ UNCHANGED auxVars
    /\ UNCHANGED <<dialect, ormv, live, txdb, txOpen, txFailed, connFailed, sync_db,
                   db_table_names, scanQ, mismatched_tables, todo, curTable, cur, plan,
                   stmts, prev, calls, failures, ext>>

\* the end of the comparison                           (lines 259-263, 417-421)
Decide ==
    /\ pc = "decide"
    /\ IF mismatched_tables = {}
       THEN /\ log' = Append(log, LogEvent("info", "consistent", "", "", {}))
            /\ ret' = TRUE
            /\ pc' = "done"
       ELSE IF ~sync_db
       THEN /\ log' = log \o <<LogEvent("warning", "schema_mismatch", "", "", mismatched_tables),
                               LogEvent("info", "sync_disabled", "", "", {})>>
            /\ ret' = FALSE
            /\ pc' = "done"
       ELSE /\ log' = log \o <<LogEvent("warning", "schema_mismatch", "", "", mismatched_tables),
                               LogEvent("info", "attempting_sync", "", "", {})>>
            /\ ret' = ret
            /\ pc' = "create"
    /\ UNCHANGED auxVars
    /\ UNCHANGED <<dialect, ormv, live, txdb, txOpen, txFailed, connFailed, sync_db,
                   db_table_names, scanQ, mismatched_tables, todo, curTable, cur, plan,
                   stmts, prev, calls, failures, ext>>

\* a bulk create that does not look whether a table is there
MissingTables_NoCheck(db, order) == order

\* the declared tables create_all finds absent, in creation order
RECURSIVE MissingTables(_, _)
MissingTables(db, order) ==
    IF order = << >> THEN << >>
    ELSE (IF db[Head(order)].exists THEN << >> ELSE <<Head(order)>>)
         \o MissingTables(db, Tail(order))

\* db after the first n tables of `missing` were created
WithCreated(db, tables, missing, n) ==
    [t \in TableNames |->
        IF \E i \in 1..n : missing[i] = t THEN CreatedTable(tables[t]) ELSE db[t]]

\* a Phase 2 that goes through every declared table
Phase2Tables_All(mismatched) == TableNames

\* the tables the loop of Phase 2 goes through                   (lines 272-274)
Phase2Tables(mismatched) == {t \in mismatched : t \in TableNames}

\* Phase 1: engine.begin() and Base.metadata.create_all         (lines 264-268)
CreateAll ==
    /\ pc = "create"
    /\ LET missing == MissingTables(live, TableOrder) IN
         \/ /\ txdb' = WithCreated(live, orm_tables, missing, Len(missing))
            /\ live' = IF TransactionalDDL(dialect) THEN live ELSE txdb'
            /\ txOpen' = TRUE
            /\ txFailed' = FALSE
            /\ stmts' = Append(stmts, Stmt("create_all", "", "", "", TRUE))
            /\ log' = log \o <<LogEvent("info", "step1_start", "", "", {}),
                               LogEvent("info", "step1_finished", "", "", {}),
                               LogEvent("info", "step2_start", "", "", {})>>
            /\ todo' = Phase2Tables(mismatched_tables)
            /\ pc' = "next_table"
            /\ UNCHANGED <<ret, failures>>
         \/ /\ failures < MaxFailures
            /\ failures' = failures + 1
            /\ \E n \in 0..(IF TransactionalDDL(dialect) \/ missing = << >>
                            THEN 0 ELSE Len(missing) - 1) :
                   live' = WithCreated(live, orm_tables, missing, n)
            /\ txdb' = live'
            /\ txOpen' = FALSE
            /\ txFailed' = FALSE
            /\ stmts' = Append(stmts, Stmt("create_all", "", "", "", FALSE))
            /\ log' = TopLevelError(Append(log, LogEvent("info", "step1_start", "", "", {})))
            /\ ret' = FALSE
            /\ pc' = "done"
            /\ UNCHANGED todo
    /\ UNCHANGED auxVars
    /\ UNCHANGED <<dialect, ormv, connFailed, sync_db, db_table_names, scanQ,
                   mismatched_tables, curTable, cur, plan, prev, calls, ext>>

RefetchQueries == <<"get_columns", "get_unique_constraints", "get_indexes">>

\* the queries of a re-fetch whose k-th query fails (k = 0: none fails)
RefetchStmts(t, k) ==
    [i \in 1..(IF k = 0 THEN Len(RefetchQueries) ELSE k) |->
        Stmt(RefetchQueries[i], t, "refetch", "", i # k)]

\* Phase 2, the head of the loop over the mismatched tables: the re-fetch
\* of one table and the decisions taken on it                   (lines 272-296)
NextTable ==
    /\ pc = "next_table"
    /\ \E t \in todo :
         /\ todo' = todo \ {t}
         /\ curTable' = t
         /\ \/ /\ ~txFailed
               /\ cur' = Refetched(txdb[t])
               /\ plan' = TablePlan(dialect, t, orm_tables[t], cur')
               /\ stmts' = stmts \o RefetchStmts(t, 0)
               /\ pc' = IF plan' = << >> THEN "next_table" ELSE "alter"
               /\ UNCHANGED <<log, txFailed, failures>>
            \/ /\ txFailed \/ failures < MaxFailures
               /\ \E k \in 1..(IF txFailed THEN 1 ELSE Len(RefetchQueries)) :
                      stmts' = stmts \o RefetchStmts(t, k)
               /\ failures' = IF txFailed THEN failures ELSE failures + 1
               /\ txFailed' = (txFailed \/ FailureAbortsTx(dialect))
               /\ log' = Append(log, LogEvent("error", "refetch_error", t, "", {}))
               /\ cur' = NoCur
               /\ plan' = << >>
               /\ pc' = "next_table"
    /\ UNCHANGED auxVars
    /\ UNCHANGED <<dialect, ormv, live, txdb, txOpen, connFailed, sync_db, db_table_names,
                   scanQ, mismatched_tables, ret, prev, calls, ext>>

\* a logger call that reports every alteration as done
OutcomeEvent_AlwaysInfo(op, ok) ==
    LogEvent("info", op.op, op.tbl, op.tgt, {})

\* the logger call that follows an alteration: info after the statement,
\* error in its except clause             (lines 316-318, 374-376, 386-388, 397-399, 412-414)
OutcomeEvent(op, ok) ==
    LogEvent(IF ok THEN "info" ELSE "error", op.op, op.tbl, op.tgt, {})

\* Phase 2, one statement: ADD COLUMN, ALTER COLUMN TYPE, ALTER COLUMN
\* SET/DROP NOT NULL, AddConstraint or CreateIndex, with its try/except
\*                                                              (lines 298-414)
AlterStep ==
    /\ pc = "alter"
    /\ plan # << >>
    /\ LET op == Head(plan)
           t == op.tbl
           forced == txFailed \/ Rejected(dialect, orm_tables[t], txdb[t], op)
       IN  \/ /\ ~forced
              /\ txdb' = [txdb EXCEPT ![t] = Applied(orm_tables[t], @, op)]
              /\ live' = IF TransactionalDDL(dialect) THEN live ELSE txdb'
              /\ stmts' = Append(stmts, Stmt(op.op, t, op.tgt, op.arg, TRUE))
              /\ log' = Append(log, OutcomeEvent(op, TRUE))
              /\ UNCHANGED <<txFailed, failures>>
           \/ /\ forced \/ failures < MaxFailures
              /\ failures' = IF forced THEN failures ELSE failures + 1
              /\ txFailed' = (txFailed \/ FailureAbortsTx(dialect))
              /\ stmts' = Append(stmts, Stmt(op.op, t, op.tgt, op.arg, FALSE))
              /\ log' = Append(log, OutcomeEvent(op, FALSE))
              /\ UNCHANGED <<txdb, live>>
    /\ plan' = Tail(plan)
    /\ pc' = IF Tail(plan) = << >> THEN "next_table" ELSE "alter"
    /\ UNCHANGED auxVars
    /\ UNCHANGED <<dialect, ormv, txOpen, connFailed, sync_db, db_table_names, scanQ,
                   mismatched_tables, todo, curTable, cur, ret, prev, calls, ext>>

\* an end of the synchronization that returns True when every statement of
\* the run succeeded
Commit_ReturnsSuccess ==
    /\ pc = "next_table"
    /\ todo = {}
    /\ live' = IF txFailed THEN live ELSE txdb
    /\ txdb' = live'
    /\ txOpen' = FALSE
    /\ txFailed' = FALSE
    /\ stmts' = Append(stmts, Stmt("commit", "", "", "", ~txFailed))
    /\ log' = Append(log, LogEvent("info", "sync_finished", "", "", {}))
    /\ ret' = \A i \in DOMAIN stmts : stmts[i].ok
    /\ pc' = "done"
    /\ UNCHANGED auxVars
    /\ UNCHANGED <<dialect, ormv, connFailed, sync_db, db_table_names, scanQ,
                   mismatched_tables, todo, curTable, cur, plan, prev, calls, failures, ext>>

\* the end of `async with engine.begin()`: the commit, and the return
\*                                                     (lines 264, 416, 421)
Commit ==
    /\ pc = "next_table"
    /\ todo = {}
    /\ live' = IF txFailed THEN live ELSE txdb
    /\ txdb' = live'
    /\ txOpen' = FALSE
    /\ txFailed' = FALSE
    /\ stmts' = Append(stmts, Stmt("commit", "", "", "", ~txFailed))
    /\ log' = Append(log, LogEvent("info", "sync_finished", "", "", {}))
    /\ ret' = (mismatched_tables = {})
    /\ pc' = "done"
    /\ UNCHANGED auxVars
    /\ UNCHANGED <<dialect, ormv, connFailed, sync_db, db_table_names, scanQ,
                   mismatched_tables, todo, curTable, cur, plan, prev, calls, failures, ext>>

(* Another actor, on its own connection, adds a declared element that the   *)
(* live schema lacks while an invocation runs.  It waits for the lock of a  *)
(* table the open transaction has changed.                                   *)
ExternalOps(tbl, t, tab) ==
    {Op("add_column", t, c, "") : c \in OrmColumnNames(tbl) \ DOMAIN tab.cols}
    \cup {Op("add_unique", t, u.name, "") : u \in tbl.constraints}
    \cup {Op("add_index", t, i.name, "") : i \in tbl.indexes}

ExternalAdd ==
    /\ pc \notin {"idle", "done"}
    /\ ext < MaxExt
    /\ ext' = ext + 1
    /\ \E t \in TableNames :
         /\ txOpen => txdb[t] = live[t]
         /\ IF ~live[t].exists
            THEN live' = [live EXCEPT ![t] = CreatedTable(orm_tables[t])]
            ELSE \E op \in ExternalOps(orm_tables[t], t, live[t]) :
                   /\ ~Rejected("postgresql", orm_tables[t], live[t], op)
                   /\ live' = [live EXCEPT ![t] = Applied(orm_tables[t], @, op)]
         /\ txdb' = [txdb EXCEPT ![t] = live'[t]]
    /\ UNCHANGED auxVars
    /\ UNCHANGED <<dialect, ormv, txOpen, txFailed, connFailed, pc, sync_db, db_table_names,
                   scanQ, mismatched_tables, todo, curTable, cur, plan, stmts, log, ret,
                   prev, calls, failures>>

Next ==
    \/ \E s \in BOOLEAN : Call(s)
    \/ ListTables
    \/ ScanTable
    \/ Decide
    \/ CreateAll
    \/ NextTable
    \/ AlterStep
    \/ Commit
    \/ ExternalAdd

Spec == Init /\ [][Next]_vars

SpecStr == InitWith("str") /\ [][Next]_vars

SpecOpt == InitWith("opt") /\ [][Next]_vars

\* the steps of an invocation (everything but the caller and the other actor)
RunNext ==
    ListTables \/ ScanTable \/ Decide \/ CreateAll \/ NextTable \/ AlterStep \/ Commit

-----------------------------------------------------------------------------
(* Vocabulary of the properties *)

ReadOps == {"get_table_names", "get_columns", "get_pk_constraint",
            "get_unique_constraints", "get_indexes"}
AlterOps == {"add_column", "alter_type", "alter_nullable", "add_unique", "add_index"}

AllOk(ss) == \A i \in DOMAIN ss : ss[i].ok
FailedOn(ss, t) == \E i \in DOMAIN ss : ss[i].tbl = t /\ ~ss[i].ok
Issued(ss, op) == \E i \in DOMAIN ss : ss[i].op = op
IssuedOk(ss, op) == \E i \in DOMAIN ss : ss[i].op = op /\ ss[i].ok
AlterationFailedOn(ss, t) ==
    \E i \in DOMAIN ss : ss[i].tbl = t /\ ss[i].op \in AlterOps /\ ~ss[i].ok

\* the first statement of ss that failed is an alteration
FirstFailureIsAlteration(ss) ==
    \E i \in DOMAIN ss :
        /\ ~ss[i].ok /\ ss[i].op \in AlterOps
        /\ \A j \in 1..(i - 1) : ss[j].ok

\* the live schema shows the effect of the alteration s
EffectPresent(db, tables, s) ==
    LET tab == db[s.tbl] tbl == tables[s.tbl] IN
    /\ tab.exists
    /\ CASE s.op = "add_column" -> s.tgt \in DOMAIN tab.cols
         [] s.op = "alter_type" ->
               /\ s.tgt \in DOMAIN tab.cols
               /\ tab.cols[s.tgt].type = Reflected(OrmCol(tbl, s.tgt).type)
         [] s.op = "alter_nullable" ->
               /\ s.tgt \in DOMAIN tab.cols
               /\ tab.cols[s.tgt].nullable = OrmCol(tbl, s.tgt).nullable
         [] s.op = "add_unique" -> \E u \in tab.uqs : u.name = s.tgt
         [] s.op = "add_index" -> \E i \in tab.idx : i.name = s.tgt

-----------------------------------------------------------------------------
(* C1: with a fixed declared model and no other writer, after a run with    *)
(* sync_db = True a following comparison reports no mismatch for a table    *)
(* all of whose corrective operations succeeded, and still reports the      *)
(* table of every operation that failed.  (The statement of the claim; the  *)
(* code violates it.)                                                        *)
C1_SyncThenDiffConverges ==
    (/\ pc = "done" /\ prev.valid /\ prev.sync_db /\ ext = 0
     /\ IssuedOk(stmts, "get_table_names") /\ AllOk(stmts))
    => \A t \in prev.mismatched :
         /\ (IssuedOk(prev.stmts, "create_all") /\ ~FailedOn(prev.stmts, t))
               => t \notin mismatched_tables
         /\ AlterationFailedOn(prev.stmts, t) => t \in mismatched_tables

(* C2: a Phase 2 alteration that completed successfully stays applied in    *)
(* the live database when a later alteration of the same run fails.  (The   *)
(* statement of the claim; the code violates it.)                            *)
C2_AppliedStaysApplied ==
    (pc = "done" /\ ext = 0 /\ FirstFailureIsAlteration(stmts))
    => \A i \in DOMAIN stmts :
         (stmts[i].op \in AlterOps /\ stmts[i].ok)
            => EffectPresent(live, orm_tables, stmts[i])

(* C3: when one Phase 2 alteration fails, every remaining operation of that *)
(* table and of every other mismatched table is still attempted in the same *)
(* run: when Phase 2 ends, every operation a mismatched table still needs   *)
(* has been attempted.  (The statement of the claim; the code violates it.) *)
C3_RemainingStillAttempted ==
    (pc = "next_table" /\ todo = {} /\ ext = 0 /\ FirstFailureIsAlteration(stmts))
    => \A t \in mismatched_tables :
         LET outstanding == TablePlan(dialect, t, orm_tables[t], Refetched(txdb[t])) IN
         \A k \in DOMAIN outstanding :
            \E i \in DOMAIN stmts :
               /\ stmts[i].op = outstanding[k].op
               /\ stmts[i].tbl = t
               /\ stmts[i].tgt = outstanding[k].tgt

-----------------------------------------------------------------------------
\* the state of a live table as a re-read reports it
StateOf(tab) ==
    [cols |-> tab.cols,
     uqs  |-> {SortedTuple(u.column_names) : u \in tab.uqs},
     idx  |-> {SortedTuple(i.column_names) : i \in tab.idx}]

\* the table state c lacks what the alteration (op, tgt) brings
NeededIn(c, tbl, op, tgt) ==
    CASE op = "add_column" -> tgt \notin DOMAIN c.cols
      [] op = "alter_type" ->
            tgt \in DOMAIN c.cols /\ c.cols[tgt].type # Reflected(OrmCol(tbl, tgt).type)
      [] op = "alter_nullable" ->
            tgt \in DOMAIN c.cols /\ c.cols[tgt].nullable # OrmCol(tbl, tgt).nullable
      [] op = "add_unique" -> SortedTuple(OrmConstraint(tbl, tgt).columns) \notin c.uqs
      [] op = "add_index" -> SortedTuple(OrmIndex(tbl, tgt).columns) \notin c.idx

\* every alteration of a table comes after the three re-read queries of that
\* table succeeded, and no alteration of the table precedes them
C4_ReReadPrecedes ==
    \A i \in DOMAIN stmts :
        stmts[i].op \in AlterOps =>
            \A q \in Range(RefetchQueries) :
                \E j \in 1..(i - 1) :
                    /\ stmts[j] = Stmt(q, stmts[i].tbl, "refetch", "", TRUE)
                    /\ \A k \in 1..j : ~(stmts[k].op \in AlterOps /\ stmts[k].tbl = stmts[i].tbl)

\* every alteration attempted on the table in hand is one its re-read state lacks
C4_DecidedOnReRead ==
    (pc \in {"alter", "next_table"} /\ curTable # "")
    => \A i \in DOMAIN stmts :
          (stmts[i].tbl = curTable /\ stmts[i].op \in AlterOps)
             => NeededIn(cur, orm_tables[curTable], stmts[i].op, stmts[i].tgt)

\* the step that completes a re-read takes the table as the database shows it
\* at that moment, and plans no operation for an element that is there
C4_ReReadStep ==
    (/\ pc = "next_table"
     /\ Len(stmts') > Len(stmts)
     /\ stmts'[Len(stmts')] = Stmt("get_indexes", curTable', "refetch", "", TRUE))
    => /\ cur' = StateOf(txdb[curTable'])
       /\ \A k \in DOMAIN plan' :
             NeededIn(StateOf(txdb[curTable']), orm_tables[curTable'], plan'[k].op, plan'[k].tgt)

(* C4: Phase 2 re-reads the live state of a mismatched table strictly       *)
(* before its first alteration of that table; what it alters is decided on  *)
(* the re-read state, so an element another actor added between the         *)
(* comparison and the re-read is not added again.                            *)
C4_ReReadBeforeAlter ==
    /\ [](C4_ReReadPrecedes /\ C4_DecidedOnReRead)
    /\ [][C4_ReReadStep]_vars

\* the comparison flagged t1 for its column set (b was missing), another actor
\* added b, the re-read of t1 succeeded and the run never tried to add b
C4_Witness ==
    /\ pc = "done" /\ sync_db /\ ext = 1
    /\ \E i \in DOMAIN log : log[i].event = "column_set_mismatch" /\ log[i].tbl = "t1"
    /\ Stmt("get_indexes", "t1", "refetch", "", TRUE) \in Range(stmts)
    /\ DOMAIN live["t1"].cols = OrmColumnNames(orm_tables["t1"])
    /\ ~\E i \in DOMAIN stmts : stmts[i].op = "add_column" /\ stmts[i].tbl = "t1"

-----------------------------------------------------------------------------
\* the type alterations attempted on the table in hand against a column whose
\* re-read type is textual
TextualTypeAlters ==
    {i \in DOMAIN stmts :
        /\ stmts[i].op = "alter_type"
        /\ stmts[i].tbl = curTable
        /\ stmts[i].tgt \in DOMAIN cur.cols
        /\ IsTextual(cur.cols[stmts[i].tgt].type)}

(* C5 as stated: a type alteration against a text-typed live column carries *)
(* a cast, and without a registered cast no ALTER TYPE statement is         *)
(* executed.  (The statement of the claim; the code executes the bare       *)
(* statement.)                                                               *)
C5_CastOrNoAlter ==
    \A i \in TextualTypeAlters : stmts[i].arg # ""

(* C5, amended: against a text-typed live column the ALTER TYPE statement   *)
(* carries the cast of the declared type's family on PostgreSQL when the    *)
(* family has one (here Integer), and is executed without a cast otherwise  *)
(* (another dialect, or a declared type with no cast, here String); it is   *)
(* never skipped, and it is logged as failed exactly when the statement     *)
(* failed.                                                                   *)
C5_CastWhereRegistered ==
    /\ \A i \in TextualTypeAlters :
          LET declared == OrmCol(orm_tables[curTable], stmts[i].tgt).type IN
          /\ (dialect = "postgresql" /\ declared = "Integer") => stmts[i].arg = "INTEGER"
          /\ (dialect # "postgresql" \/ declared = "String") => stmts[i].arg = ""
          /\ LogEvent(IF stmts[i].ok THEN "info" ELSE "error", "alter_type",
                      curTable, stmts[i].tgt, {}) \in Range(log)
    /\ (pc = "next_table" /\ curTable # "")
       => \A c \in DOMAIN cur.cols :
             LET declared == OrmCol(orm_tables[curTable], c).type IN
             (/\ c \in OrmColumnNames(orm_tables[curTable])
              /\ IsTextual(cur.cols[c].type)
              /\ declared = "Integer" \/ (declared = "String" /\ cur.cols[c].type = "TEXT"))
             => \E i \in TextualTypeAlters : stmts[i].tgt = c

\* on PostgreSQL one run altered t1.b with the INTEGER cast and then t2.c,
\* declared String and live TEXT, with the bare statement, which succeeded
C5_Witness ==
    /\ dialect = "postgresql" /\ pc = "next_table" /\ curTable = "t2"
    /\ "c" \in DOMAIN cur.cols /\ cur.cols["c"].type = "TEXT"
    /\ Stmt("alter_type", "t2", "c", "", TRUE) \in Range(stmts)
    /\ Stmt("alter_type", "t1", "b", "INTEGER", TRUE) \in Range(stmts)

-----------------------------------------------------------------------------
\* an invocation that has started runs on: the coroutine is awaited to its end
FairSpec == Spec /\ WF_vars(RunNext)

IsAlteration(s) == s.op \in AlterOps
IsAlterationEvent(e) == e.event \in AlterOps
FailedAlterations(ss) ==
    {[op |-> ss[i].op, tbl |-> ss[i].tbl, tgt |-> ss[i].tgt] :
        i \in {k \in DOMAIN ss : ss[k].op \in AlterOps /\ ~ss[k].ok}}

(* C6 as stated: what the caller receives tells which operations failed:    *)
(* two invocations that hand the caller the same value had the same failed  *)
(* operations.  (The statement of the claim; the code returns one boolean.) *)
C6_ReportReturned ==
    (pc = "done" /\ prev.valid /\ ret = prev.ret)
    => FailedAlterations(stmts) = FailedAlterations(prev.stmts)

\* the logger calls of the alterations are, in order, the alterations
\* attempted, each with its kind, table, target and outcome
C6_OutcomesLogged ==
    LET evs == SelectSeq(log, IsAlterationEvent)
        ops == SelectSeq(stmts, IsAlteration)
    IN  /\ Len(evs) = Len(ops)
        /\ \A i \in DOMAIN ops :
              evs[i] = LogEvent(IF ops[i].ok THEN "info" ELSE "error",
                                ops[i].op, ops[i].tbl, ops[i].tgt, {})

\* the caller receives one boolean: True exactly when the comparison found
\* no mismatch
C6_ReturnsBoolean ==
    pc = "done" =>
        /\ ret \in BOOLEAN
        /\ ret <=> (mismatched_tables = {} /\ AllOk(stmts) /\ IssuedOk(stmts, "get_table_names"))

(* C6, amended: every invocation terminates, also when operations failed,   *)
(* and hands the caller a boolean (True exactly when the comparison found   *)
(* no mismatch); the kind, table, target and outcome of each attempted      *)
(* operation are written to the log in the order of the attempts.           *)
C6_TerminatesAndLogs ==
    /\ [](C6_OutcomesLogged /\ C6_ReturnsBoolean)
    /\ (pc = "list") ~> (pc = "done")

\* a finished run in which one alteration was applied and another failed
C6_Witness ==
    /\ pc = "done" /\ ret = FALSE
    /\ Stmt("commit", "", "", "", TRUE) \in Range(stmts)
    /\ \E i, j \in DOMAIN stmts :
          /\ stmts[i].op \in AlterOps /\ stmts[i].ok
          /\ stmts[j].op \in AlterOps /\ ~stmts[j].ok

-----------------------------------------------------------------------------
FatalOps == {"get_table_names", "create_all"}

\* the run of the statements ss ended in the handler of the outermost try
TopLevelFailed(ss) == \E i \in DOMAIN ss : ss[i].op \in FatalOps /\ ~ss[i].ok

TopLevelErrors(l) == {k \in DOMAIN l : l[k].event = "top_level_error"}

(* C7 as stated, its last part: the caller can tell a run that ended in a   *)
(* top-level error from a run that completed with mismatches.  (The         *)
(* statement of the claim; both return False.)                               *)
C7_Distinguishable ==
    (/\ pc = "done" /\ prev.valid
     /\ TopLevelFailed(prev.stmts)
     /\ ~TopLevelFailed(stmts) /\ mismatched_tables # {})
    => ret # prev.ret

(* C7, amended: a failure of the Phase 1 bulk create or of the table-name   *)
(* listing ends the run: it is the last statement of the run, so no Phase 2 *)
(* alteration follows; exactly one top-level error is logged, as the last   *)
(* logger call; and the caller receives False, the value it also receives   *)
(* from a run that completed with mismatches.                                *)
C7_FatalEndsRun ==
    /\ \A i \in DOMAIN stmts :
          (stmts[i].op \in FatalOps /\ ~stmts[i].ok)
          => /\ i = Len(stmts)
             /\ pc = "done"
             /\ ret = FALSE
             /\ TopLevelErrors(log) = {Len(log)}
    /\ (pc = "done" /\ mismatched_tables # {}) => ret = FALSE
    /\ ~TopLevelFailed(stmts) => TopLevelErrors(log) = {}

\* a run with sync_db = True whose bulk create failed
C7_Witness ==
    /\ pc = "done" /\ sync_db /\ mismatched_tables # {}
    /\ stmts[Len(stmts)] = Stmt("create_all", "", "", "", FALSE)

-----------------------------------------------------------------------------
DiffQuery(q, t, ok) == Stmt(q, t, "", "", ok)

(* C8: when a reflection query of an existing table fails during the        *)
(* comparison, the table is marked mismatched, the four queries of that     *)
(* table and of every other existing declared table are still issued, and   *)
(* a run with sync_db = True whose Phase 2 completes takes the table        *)
(* through the re-read of Phase 2.                                           *)
C8_IntrospectionFailureFlags ==
    \A t \in TableNames :
        (\E q \in Range(Queries) : DiffQuery(q, t, FALSE) \in Range(stmts))
        => /\ t \in mismatched_tables
           /\ \A q \in Range(Queries) : \E ok \in BOOLEAN : DiffQuery(q, t, ok) \in Range(stmts)
           /\ (pc \notin {"list", "scan"})
              => \A u \in db_table_names : \A q \in Range(Queries) :
                    \E ok \in BOOLEAN : DiffQuery(q, u, ok) \in Range(stmts)
           /\ (pc = "create" \/ Issued(stmts, "create_all")) => sync_db
           /\ (sync_db /\ pc = "decide") => ENABLED (Decide /\ pc' = "create")
           /\ Issued(stmts, "commit")
              => \E ok \in BOOLEAN : Stmt("get_columns", t, "refetch", "", ok) \in Range(stmts)

\* the primary-key query of t1 failed, nothing else is wrong with t1, and
\* the run went on to the index query of t1, to t2, and to the re-read of t1
C8_Witness ==
    /\ pc = "done" /\ sync_db
    /\ DiffQuery("get_pk_constraint", "t1", FALSE) \in Range(stmts)
    /\ DiffQuery("get_indexes", "t1", TRUE) \in Range(stmts)
    /\ DiffQuery("get_columns", "t2", TRUE) \in Range(stmts)
    /\ \A i \in DOMAIN log : log[i].tbl = "t1" => log[i].event = "primary_key_error"
    /\ Stmt("get_indexes", "t1", "refetch", "", TRUE) \in Range(stmts)

-----------------------------------------------------------------------------
-----------------------------------------------------------------------------
\* a comparison leaves every statement a read and opens no transaction
C10_OnlyReads ==
    (~sync_db /\ pc # "idle")
    => /\ \A i \in DOMAIN stmts : stmts[i].op \in ReadOps
       /\ ~txOpen

\* a step of a comparison changes neither the live schema nor a transaction's
\* view of it
C10_StepKeepsSchema ==
    (~sync_db' /\ ext' = ext) => (live' = live /\ txdb' = txdb)

(* C10: with sync_db = False no DDL statement is executed and the live      *)
(* schema is the same after the call as before, whatever mismatches are     *)
(* found.                                                                     *)
C10_DiffChangesNothing ==
    /\ []C10_OnlyReads
    /\ [][C10_StepKeepsSchema]_vars

\* a comparison that found mismatches has returned, after an earlier one
C10_Witness ==
    /\ pc = "done" /\ ~sync_db /\ mismatched_tables # {} /\ ext = 0
    /\ prev.valid /\ ~prev.sync_db
    /\ live # ConformingDB(ormv)

-----------------------------------------------------------------------------
\* the database after one bulk create that succeeded
AfterCreateAll(db) ==
    WithCreated(db, orm_tables, MissingTables(db, TableOrder),
                Len(MissingTables(db, TableOrder)))

AllDeclaredExist(db) == \A t \in TableNames : db[t].exists

\* on any live schema a second bulk create changes nothing the first one
\* left, and on a schema that has every declared table the first changes nothing
C11_TwiceAsOnce ==
    /\ AfterCreateAll(AfterCreateAll(live)) = AfterCreateAll(live)
    /\ AllDeclaredExist(live) => AfterCreateAll(live) = live

\* the step of a bulk create that succeeded leaves every existing table as it
\* was, in the transaction's view and in the live schema, and the
\* transaction's view has every declared table afterwards
C11_CreateStep ==
    (pc = "create" /\ pc' = "next_table")
    => /\ stmts' = Append(stmts, Stmt("create_all", "", "", "", TRUE))
       /\ \A t \in TableNames :
             live[t].exists => (txdb'[t] = live[t] /\ live'[t] = live[t])
       /\ AllDeclaredExist(txdb')

(* C11: the Phase 1 bulk create is idempotent: run when every declared      *)
(* table exists it raises no error for that and leaves every existing table *)
(* and its columns unchanged, and running it twice has the effect of        *)
(* running it once.                                                          *)
C11_BulkCreateIdempotent ==
    /\ []C11_TwiceAsOnce
    /\ [][C11_CreateStep]_vars

\* the bulk create succeeded in two invocations in a row; the second found
\* every declared table in place, one of them still differing from its
\* declaration
C11_Witness ==
    /\ pc = "next_table" /\ prev.valid /\ ext = 0
    /\ IssuedOk(prev.stmts, "create_all")
    /\ stmts[Len(stmts)] = Stmt("create_all", "", "", "", TRUE)
    /\ AllDeclaredExist(live)
    /\ live # ConformingDB(ormv)
    /\ txdb = live

-----------------------------------------------------------------------------
(* The type compatibility check taken on its own: the verdict of the        *)
(* comparison (lines 126-145) and that of Phase 2 (lines 330-345) on a pair *)
(* of lower-cased class names.                                               *)

\* class names of declared and of reflected types, lower-cased:
\* integer int4 bigint biginteger varchar char string text date time datetime timestamp boolean numeric float blob clob json jsonb interval enum
TypeNames ==
    {<<"i","n","t","e","g","e","r">>,
     <<"i","n","t","4">>,
     <<"b","i","g","i","n","t">>,
     <<"b","i","g","i","n","t","e","g","e","r">>,
     <<"v","a","r","c","h","a","r">>,
     <<"c","h","a","r">>,
     <<"s","t","r","i","n","g">>,
     <<"t","e","x","t">>,
     <<"d","a","t","e">>,
     <<"t","i","m","e">>,
     <<"d","a","t","e","t","i","m","e">>,
     <<"t","i","m","e","s","t","a","m","p">>,
     <<"b","o","o","l","e","a","n">>,
     <<"n","u","m","e","r","i","c">>,
     <<"f","l","o","a","t">>,
     <<"b","l","o","b">>,
     <<"c","l","o","b">>,
     <<"j","s","o","n">>,
     <<"j","s","o","n","b">>,
     <<"i","n","t","e","r","v","a","l">>,
     <<"e","n","u","m">>}

InitTypeCheck ==
    /\ dialect = "postgresql"
    /\ ormv = "int"
    /\ live = ConformingDB("int")
    /\ txdb = live
    /\ txOpen = FALSE
    /\ txFailed = FALSE
    /\ connFailed = FALSE
    /\ pc = "idle"
    /\ sync_db = FALSE
    /\ db_table_names = {}
    /\ scanQ = << >>
    /\ mismatched_tables = {}
    /\ todo = {}
    /\ curTable = ""
    /\ cur = NoCur
    /\ plan = << >>
    /\ stmts = << >>
    /\ log = << >>
    /\ ret = FALSE
    /\ prev = NoPrev
    /\ calls = 0
    /\ failures = 0
    /\ ext = 0
    /\ FilterIdle
    /\ FactoryIdle
    /\ HistoryIdle
    /\ SaveIdle
    /\ orm_type_str \in TypeNames
    /\ db_type_str \in TypeNames
    /\ is_compatible = FALSE
    /\ is_compatible_for_alter = FALSE
    /\ checked = {}
    /\ DefaultCheckIdle
    /\ TableCheckIdle

\* lines 126-145: no type mismatch is recorded when this is TRUE
CheckTypeDiff ==
    /\ "diff" \notin checked
    /\ is_compatible' = DiffCompatible(orm_type_str, db_type_str)
    /\ checked' = checked \cup {"diff"}
    /\ UNCHANGED <<orm_type_str, db_type_str, is_compatible_for_alter>>
    /\ UNCHANGED <<syncVars, defaultVars, tableVars, saveVars, histVars, factoryVars, filterVars>>

\* lines 330-345
CheckTypeAlter ==
    /\ "alter" \notin checked
    /\ is_compatible_for_alter' = AlterCompatible(orm_type_str, db_type_str)
    /\ checked' = checked \cup {"alter"}
    /\ UNCHANGED <<orm_type_str, db_type_str, is_compatible>>
    /\ UNCHANGED <<syncVars, defaultVars, tableVars, saveVars, histVars, factoryVars, filterVars>>

NextTypeCheck == CheckTypeDiff \/ CheckTypeAlter

SpecTypeCheck == InitTypeCheck /\ [][NextTypeCheck]_vars

-----------------------------------------------------------------------------
\* the nine families in the order of preference large-object, boolean, date,
\* time, numeric, floating-point, integer, character, text, each by its keyword
FamilyOrder ==
    << <<"l","o","b">>, <<"b","o","o","l">>, <<"d","a","t","e">>, <<"t","i","m","e">>,
       <<"n","u","m">>, <<"f","l","o","a","t">>, <<"i","n","t">>, <<"c","h","a","r">>,
       <<"t","e","x","t">> >>

\* the position in FamilyOrder of the first family whose keyword the name
\* contains, 0 when it contains none
Family(n) ==
    IF \E k \in DOMAIN FamilyOrder : Contains(n, FamilyOrder[k])
    THEN CHOOSE k \in DOMAIN FamilyOrder :
            /\ Contains(n, FamilyOrder[k])
            /\ \A j \in 1..(k - 1) : ~Contains(n, FamilyOrder[j])
    ELSE 0

\* equal names, or two classified names of the same family
SameFamily(o, d) == o = d \/ (Family(o) # 0 /\ Family(o) = Family(d))

\* the keywords a name contains
KeywordsOf(n) == {k \in Range(Keywords) : Contains(n, k)}

BothChecked == checked = {"diff", "alter"}

(* C12 as stated: both checks return true exactly when the names are equal  *)
(* or classify into the same family.  (The statement of the claim; the      *)
(* comparison also accepts a name contained in the other, and both checks   *)
(* accept any shared keyword.)                                               *)
C12_CompatibleIffSameFamily ==
    BothChecked =>
        /\ is_compatible = SameFamily(orm_type_str, db_type_str)
        /\ is_compatible_for_alter = SameFamily(orm_type_str, db_type_str)

(* C12, amended: the comparison's check returns true exactly when one name  *)
(* contains the other or both contain one and the same of the nine          *)
(* keywords; Phase 2's check returns true exactly when the names are equal  *)
(* or both contain one and the same keyword.  So int4 and integer are       *)
(* compatible, varchar and integer are not, date and time are not, and a    *)
(* name with no keyword is compatible in Phase 2 only with itself, in the   *)
(* comparison also with a name it contains or is contained in.               *)
C12_SharedKeywordOrContainment ==
    LET o == orm_type_str
        d == db_type_str
        shared == KeywordsOf(o) \cap KeywordsOf(d) # {}
    IN  /\ "diff" \in checked =>
              /\ is_compatible = (shared \/ Contains(o, d) \/ Contains(d, o))
              /\ (o = <<"i","n","t","4">> /\ d = <<"i","n","t","e","g","e","r">>) => is_compatible
              /\ (o = <<"v","a","r","c","h","a","r">> /\ d = <<"i","n","t","e","g","e","r">>) => ~is_compatible
              /\ (o = <<"d","a","t","e">> /\ d = <<"t","i","m","e">>) => ~is_compatible
              /\ (o = <<"j","s","o","n">> /\ d = <<"j","s","o","n","b">>) => is_compatible
        /\ "alter" \in checked =>
              /\ is_compatible_for_alter = (shared \/ o = d)
              /\ (o = <<"i","n","t","4">> /\ d = <<"i","n","t","e","g","e","r">>) => is_compatible_for_alter
              /\ (o = <<"v","a","r","c","h","a","r">> /\ d = <<"i","n","t","e","g","e","r">>) => ~is_compatible_for_alter
              /\ (o = <<"d","a","t","e">> /\ d = <<"t","i","m","e">>) => ~is_compatible_for_alter
              /\ (KeywordsOf(o) = {} /\ o # d) => ~is_compatible_for_alter

\* json against jsonb, neither of any family: the comparison accepts the
\* pair, Phase 2 does not
C12_Witness ==
    /\ BothChecked
    /\ orm_type_str = <<"j","s","o","n">>
    /\ db_type_str = <<"j","s","o","n","b">>
    /\ is_compatible /\ ~is_compatible_for_alter

(* C13 as stated: for a name that contains keywords of several families     *)
(* the verdict is that of its first family in the order of preference.      *)
(* (The statement of the claim; the code assigns no family.)                 *)
C13_FirstFamilyDecides ==
    (BothChecked /\ Cardinality(KeywordsOf(orm_type_str)) > 1)
    => /\ is_compatible_for_alter = SameFamily(orm_type_str, db_type_str)
       /\ is_compatible = SameFamily(orm_type_str, db_type_str)

(* C13, amended: a name that contains keywords of several families is       *)
(* assigned to none of them: both checks find it compatible with every name *)
(* that contains any one of its keywords (datetime with date, with time and *)
(* with timestamp), and Phase 2's check finds it compatible with no other   *)
(* name but itself.                                                           *)
C13_EveryKeywordCounts ==
    LET o == orm_type_str
        d == db_type_str
    IN  (BothChecked /\ Cardinality(KeywordsOf(o)) > 1)
        => /\ \A k \in KeywordsOf(o) :
                 Contains(d, k) => (is_compatible /\ is_compatible_for_alter)
           /\ (o # d /\ \A k \in KeywordsOf(o) : ~Contains(d, k)) => ~is_compatible_for_alter

\* datetime against timestamp: they share the keyword of the time family,
\* datetime's first family is date, and both checks accept the pair
C13_Witness ==
    /\ BothChecked
    /\ orm_type_str = <<"d","a","t","e","t","i","m","e">>
    /\ db_type_str = <<"t","i","m","e","s","t","a","m","p">>
    /\ Family(orm_type_str) # Family(db_type_str)
    /\ is_compatible /\ is_compatible_for_alter

-----------------------------------------------------------------------------
\* the logger calls of l about table t of the given kind
EventsOf(l, t, ev) == {i \in DOMAIN l : l[i].tbl = t /\ l[i].event = ev}
\* the logger calls of l that name table t
EventsAbout(l, t) == {i \in DOMAIN l : l[i].tbl = t}
\* those of them that the comparison made
DiffEventsAbout(l, t) ==
    {i \in EventsAbout(l, t) : l[i].event \notin AlterOps \cup {"refetch_error"}}

\* an invocation with sync_db = True ran to its commit and the invocation
\* after it has returned, no statement of either failed, no other writer
SyncThenDiffClean ==
    /\ pc = "done" /\ prev.valid /\ prev.sync_db /\ ext = 0
    /\ IssuedOk(prev.stmts, "commit") /\ AllOk(prev.stmts)
    /\ IssuedOk(stmts, "get_table_names") /\ AllOk(stmts)

(* C14: for every declared table absent from the live database the          *)
(* comparison reports exactly one missing-table mismatch, the               *)
(* synchronization creates the table with every declared column, and the    *)
(* following comparison reports nothing for that table.  (The statement of  *)
(* the claim; the code violates it for a table with a String column.)       *)
C14_MissingTableCreated ==
    SyncThenDiffClean
    => \A t \in TableNames :
          EventsOf(prev.log, t, "table_missing") # {}
          => /\ Cardinality(DiffEventsAbout(prev.log, t)) = 1
             /\ live[t].exists
             /\ DOMAIN live[t].cols = OrmColumnNames(orm_tables[t])
             /\ EventsAbout(log, t) = {}
             /\ t \notin mismatched_tables

-----------------------------------------------------------------------------
AddColumnsOn(ss, t) == {i \in DOMAIN ss : ss[i].op = "add_column" /\ ss[i].tbl = t}

\* the comparison of the earlier invocation found nothing about t but its
\* column set, and t has no column that is not declared
OnlyColumnsLacking(t) ==
    /\ DiffEventsAbout(prev.log, t) # {}
    /\ DiffEventsAbout(prev.log, t) = EventsOf(prev.log, t, "column_set_mismatch")
    /\ DOMAIN live[t].cols \subseteq OrmColumnNames(orm_tables[t])

-----------------------------------------------------------------------------
\* the re-read of the table in hand succeeded
ReReadDone == curTable # "" /\ Stmt("get_indexes", curTable, "refetch", "", TRUE) \in Range(stmts)

AlterationsOn(ss, t) == {i \in DOMAIN ss : ss[i].op \in AlterOps /\ ss[i].tbl = t}

\* once the operations of the table in hand are through, each declared column
\* the re-read did not show has had one ADD COLUMN, with NOT NULL exactly when
\* it is declared non-nullable, and no other column has had one
C16_OneAddPerAbsentColumn ==
    (pc = "next_table" /\ ReReadDone)
    => \A c \in OrmColumnNames(orm_tables[curTable]) :
          LET adds == {i \in AddColumnsOn(stmts, curTable) : stmts[i].tgt = c} IN
          IF c \in DOMAIN cur.cols THEN adds = {}
          ELSE /\ Cardinality(adds) = 1
               /\ \A i \in adds :
                     (stmts[i].arg = "NOT NULL") = ~OrmCol(orm_tables[curTable], c).nullable
                     /\ stmts[i].arg \in {"", "NOT NULL"}

\* a failed ADD COLUMN is logged as an error, ends neither the operations of
\* its table nor the run, and raises no top-level error
C16_FailureReportedRunContinues ==
    \A i \in DOMAIN stmts :
        (stmts[i].op = "add_column" /\ ~stmts[i].ok)
        => /\ LogEvent("error", "add_column", stmts[i].tbl, stmts[i].tgt, {}) \in Range(log)
           /\ TopLevelErrors(log) = {}
           /\ pc \in {"alter", "next_table", "done"}
           /\ pc = "done" => stmts[Len(stmts)].op = "commit"
           /\ (pc = "next_table" /\ stmts[i].tbl = curTable)
              => Cardinality(AlterationsOn(stmts, curTable))
                    = Len(TablePlan(dialect, curTable, orm_tables[curTable], cur))

(* C16: every declared column absent from the re-read column set gets       *)
(* exactly one add-column operation, carrying NOT NULL exactly when the     *)
(* declared column is non-nullable; when the statement fails the failure is *)
(* logged and the run goes on.                                               *)
C16_AddColumn ==
    C16_OneAddPerAbsentColumn /\ C16_FailureReportedRunContinues

\* ADD COLUMN c NOT NULL on t2 failed, a later alteration of the same run
\* was applied, and the run ended with its commit
C16_Witness ==
    /\ pc = "done" /\ stmts[Len(stmts)].op = "commit"
    /\ \E i, j \in DOMAIN stmts :
          /\ i < j
          /\ stmts[i] = Stmt("add_column", "t2", "c", "NOT NULL", FALSE)
          /\ stmts[j].op \in AlterOps /\ stmts[j].ok

-----------------------------------------------------------------------------
\* the phase a statement belongs to: 1 the listing of the tables, 2 the
\* comparison, 3 the bulk create, 4 the re-reads and alterations, 5 the commit
PhaseOf(st) ==
    CASE st.op = "get_table_names" -> 1
      [] st.op \in Range(Queries) /\ st.tgt = "" -> 2
      [] st.op = "create_all" -> 3
      [] st.op = "commit" -> 5
      [] OTHER -> 4

\* the statements of an invocation come phase after phase
C17_PhasesInOrder ==
    /\ \A i, j \in DOMAIN stmts : i < j => PhaseOf(stmts[i]) <= PhaseOf(stmts[j])
    /\ \A i \in DOMAIN stmts : PhaseOf(stmts[i]) # 4 \/ IssuedOk(stmts, "create_all")
    /\ stmts # << >> => stmts[1].op = "get_table_names"
    /\ (pc = "done" /\ Issued(stmts, "commit")) => log[Len(log)].event = "sync_finished"

\* no corrective operation is attempted twice in an invocation, be it after
\* a success or after a failure; the bulk create and the re-read of a table
\* are not repeated either
C17_AtMostOnce ==
    \A i, j \in DOMAIN stmts :
        (/\ PhaseOf(stmts[i]) \in {3, 4}
         /\ stmts[i].op = stmts[j].op
         /\ stmts[i].tbl = stmts[j].tbl
         /\ stmts[i].tgt = stmts[j].tgt)
        => i = j

\* what an invocation holds is its own: every table of its mismatched set was
\* flagged by its own comparison, every alteration is on a table of that set
C17_OwnState ==
    /\ \A t \in mismatched_tables : DiffEventsAbout(log, t) # {}
    /\ \A i \in DOMAIN stmts : stmts[i].op \in AlterOps => stmts[i].tbl \in mismatched_tables
    /\ todo \subseteq mismatched_tables

\* the step that starts an invocation starts it from nothing
C17_FreshStart ==
    (pc \in {"idle", "done"} /\ pc' = "list")
    => /\ mismatched_tables' = {} /\ db_table_names' = {} /\ todo' = {}
       /\ stmts' = << >> /\ plan' = << >> /\ cur' = NoCur /\ curTable' = ""
       /\ live' = live

(* C17: each invocation runs its phases in the fixed order comparison of    *)
(* all declared tables, bulk create, per-table alteration, return; it       *)
(* attempts every corrective operation at most once, retries no failed      *)
(* operation, and carries no state over to the next invocation.             *)
C17_PhasesOnceNoCarryOver ==
    /\ [](C17_PhasesInOrder /\ C17_AtMostOnce /\ C17_OwnState)
    /\ [][C17_FreshStart]_vars

\* an invocation in which an alteration failed is followed by one that ran
\* to its commit with a different mismatched set and attempted the failed
\* operation once more, once
C17_Witness ==
    /\ pc = "done" /\ prev.valid /\ prev.sync_db /\ sync_db
    /\ Issued(stmts, "commit")
    /\ mismatched_tables # prev.mismatched
    /\ \E i \in DOMAIN prev.stmts : \E j \in DOMAIN stmts :
          /\ prev.stmts[i].op \in AlterOps /\ ~prev.stmts[i].ok
          /\ stmts[j].op = prev.stmts[i].op
          /\ stmts[j].tbl = prev.stmts[i].tbl
          /\ stmts[j].tgt = prev.stmts[i].tgt

-----------------------------------------------------------------------------
FailedStatements(ss) == {i \in DOMAIN ss : ~ss[i].ok /\ ss[i].op # "commit"}

(* C18, for a run on PostgreSQL that meets no failure but those another     *)
(* run causes by making a change first (the other run's committed changes   *)
(* are the steps of the other actor): such a failure stays with its one     *)
(* statement: no more statements fail than the other run made changes, and  *)
(* the alterations the run was told succeeded are in the live schema at     *)
(* its end.  (The statement of the claim; the code violates it.)             *)
C18_IsolatedFailure ==
    (/\ pc = "done" /\ sync_db /\ dialect = "postgresql"
     /\ failures = 0 /\ Issued(stmts, "commit"))
    => /\ Cardinality(FailedStatements(stmts)) <= ext
       /\ \A i \in DOMAIN stmts :
             (stmts[i].op \in AlterOps /\ stmts[i].ok)
                => EffectPresent(live, orm_tables, stmts[i])

-----------------------------------------------------------------------------
\* the logger calls that go with mismatched_tables.add        (lines 84-257)
MismatchEvents ==
    {"table_missing", "column_set_mismatch", "column_mismatch", "inspect_columns_error",
     "primary_key_mismatch", "primary_key_error",
     "unique_constraints_mismatch", "unique_constraints_error",
     "indexes_mismatch", "indexes_error"}

NamesMismatch(e, t) ==
    /\ e.tbl = t
    /\ e.event \in MismatchEvents
    /\ e.level \in {"warning", "error"}
    /\ e.event = "column_mismatch" => (e.tgt \in ColNames /\ e.info # {})

ReportsOutcome(e, s) ==
    /\ e.event = s.op
    /\ e.tbl = s.tbl
    /\ e.tgt = s.tgt
    /\ e.level = IF s.ok THEN "info" ELSE "error"

(* C19: every table in the mismatched set has a log event that names the    *)
(* table and the kind of mismatch, and every alteration attempted in        *)
(* Phase 2 has a log event for its outcome, success or failure, that names  *)
(* the table and the column, constraint or index.                           *)
C19_MismatchesAndOutcomesLogged ==
    /\ \A t \in mismatched_tables :
          \E i \in DOMAIN log : NamesMismatch(log[i], t)
    /\ \A k \in DOMAIN stmts :
          stmts[k].op \in AlterOps
             => /\ stmts[k].tbl \in mismatched_tables
                /\ stmts[k].tgt # ""
                /\ \E i \in DOMAIN log : ReportsOutcome(log[i], stmts[k])

C19_Witness ==
    /\ pc = "done"
    /\ Cardinality(mismatched_tables) = 2
    /\ \E j, k \in DOMAIN stmts :
          /\ stmts[j].op \in AlterOps /\ stmts[j].ok
          /\ stmts[k].op \in AlterOps /\ ~stmts[k].ok
          /\ stmts[j].tbl # stmts[k].tbl

-----------------------------------------------------------------------------
\* the loop over the declared tables has gone past t            (lines 84-88)
Compared(t) == IssuedOk(stmts, "get_table_names") /\ t \notin Range(scanQ)

DiffQueriesOn(ss, t) ==
    {i \in DOMAIN ss : ss[i].tbl = t /\ ss[i].tgt = "" /\ ss[i].op \in Range(Queries)}

C20_Flagged ==
    \A t \in TableNames :
       (Compared(t) /\ t \notin db_table_names)
          => /\ t \in mismatched_tables
             /\ DiffEventsAbout(log, t) = EventsOf(log, t, "table_missing")
             /\ Cardinality(EventsOf(log, t, "table_missing")) = 1
             /\ DiffQueriesOn(stmts, t) = {}

C20_NoQueryIssued ==
    (pc = "scan" /\ scanQ # << >> /\ Head(scanQ) \notin db_table_names
        /\ scanQ' = Tail(scanQ))
       => stmts' = stmts

(* C20: a declared table whose name is not in the live table-name list is   *)
(* flagged as missing, with that one event and no column, primary-key,      *)
(* unique-constraint or index event, and none of the four introspection     *)
(* queries of the comparison is issued for it.                              *)
C20_MissingTableSkipsChecks == []C20_Flagged /\ [][C20_NoQueryIssued]_vars

C20_Witness ==
    /\ pc = "done"
    /\ \E t, u \in TableNames :
          /\ Compared(t) /\ t \notin db_table_names
          /\ u \in db_table_names
          /\ Cardinality(DiffQueriesOn(stmts, u)) = Len(Queries)

-----------------------------------------------------------------------------
\* the comparison has read the columns of the existing table t, and the live
\* schema is still the one it read                                (lines 91-96)
ColumnsCompared(t) ==
    /\ pc \in {"scan", "decide"} /\ ext = 0
    /\ Compared(t) /\ t \in db_table_names
    /\ DiffQuery("get_columns", t, TRUE) \in Range(stmts)

AbsentColumns(t) == OrmColumnNames(orm_tables[t]) \ DOMAIN live[t].cols
ExtraColumns(t) == DOMAIN live[t].cols \ OrmColumnNames(orm_tables[t])

(* C21 as stated: the column-set step emits one mismatch for each declared  *)
(* column the live table lacks and for nothing else, so that extra live     *)
(* columns alone produce none.  (The statement of the claim; the code       *)
(* compares the two name sets for equality.)                                *)
C21_OnePerAbsentColumn ==
    \A t \in TableNames :
       ColumnsCompared(t)
          => Cardinality(EventsOf(log, t, "column_set_mismatch"))
                = Cardinality(AbsentColumns(t))

(* C21, amended: for an existing live table the column-set step emits one   *)
(* column-set mismatch for the table, and flags it, exactly when the set of *)
(* declared column names and the set of live column names differ, in either *)
(* direction: a table whose only difference is an extra live column is      *)
(* flagged, and a table lacking several declared columns gets one event.    *)
C21_FlaggedIffSetsDiffer ==
    \A t \in TableNames :
       ColumnsCompared(t)
          => /\ Cardinality(EventsOf(log, t, "column_set_mismatch"))
                   = IF AbsentColumns(t) # {} \/ ExtraColumns(t) # {} THEN 1 ELSE 0
             /\ (AbsentColumns(t) # {} \/ ExtraColumns(t) # {}) => t \in mismatched_tables

\* t1 has every declared column and the undeclared column x, nothing else
\* differs, and the comparison has flagged it
C21_Witness ==
    /\ ColumnsCompared("t1")
    /\ AbsentColumns("t1") = {} /\ ExtraColumns("t1") = {"x"}
    /\ Cardinality(DiffEventsAbout(log, "t1")) = 1
    /\ "t1" \in mismatched_tables

-----------------------------------------------------------------------------
SharedColumns(t) == OrmColumnNames(orm_tables[t]) \cap DOMAIN live[t].cols

\* what the attributes of column c of table t differ in: type, nullable, default
AttributeDifferences(t, c) ==
    ColumnMismatchDetails(OrmCol(orm_tables[t], c), live[t].cols[c])

ColumnMismatchEvents(l, t, c) ==
    {i \in EventsOf(l, t, "column_mismatch") : l[i].tgt = c}

(* C22 as stated: every declared column the live table also has is compared *)
(* in type, nullability and default, so that a difference in one of them is *)
(* reported for the column, also when the two column-name sets differ.      *)
(* (The statement of the claim; the code compares attributes only when the  *)
(* sets are equal.)                                                          *)
C22_SharedColumnsCompared ==
    \A t \in TableNames :
       ColumnsCompared(t)
          => \A c \in SharedColumns(t) :
                AttributeDifferences(t, c) # {}
                   => \E i \in ColumnMismatchEvents(log, t, c) :
                         log[i].info = AttributeDifferences(t, c)

(* C22, amended: when the declared and the live column-name sets are equal  *)
(* the diff compares type, nullability and default of every column and      *)
(* reports, once per column, the attributes that differ; when the sets      *)
(* differ it reports the column-set mismatch and compares the attributes of *)
(* no column.                                                                *)
C22_ComparedWhenSetsEqual ==
    \A t \in TableNames :
       ColumnsCompared(t)
          => \A c \in SharedColumns(t) :
                IF AbsentColumns(t) = {} /\ ExtraColumns(t) = {} /\ AttributeDifferences(t, c) # {}
                THEN /\ Cardinality(ColumnMismatchEvents(log, t, c)) = 1
                     /\ \A i \in ColumnMismatchEvents(log, t, c) :
                           log[i].info = AttributeDifferences(t, c)
                ELSE ColumnMismatchEvents(log, t, c) = {}

\* t1 has the undeclared column x and its column b differs in nullability:
\* the comparison reports the column sets and nothing about b
C22_Witness ==
    /\ ColumnsCompared("t1")
    /\ ExtraColumns("t1") = {"x"} /\ "b" \in SharedColumns("t1")
    /\ "nullable" \in AttributeDifferences("t1", "b")
    /\ EventsOf(log, "t1", "column_set_mismatch") # {}
    /\ ColumnMismatchEvents(log, "t1", "b") = {}

-----------------------------------------------------------------------------
(* The default comparison of one column taken on its own (lines 153-176).   *)

\* str(default.arg) or str(server_default.arg) of a declared column:
\* None 0 now()
DeclaredDefaults ==
    {None,
     <<"N","o","n","e">>,
     <<"0">>,
     <<"n","o","w","(",")">>}

\* db_col_info['default'] of a live column:
\* None 0 NULL null NULL::character varying 'annulled' now()
LiveDefaults ==
    {None,
     <<"N","o","n","e">>,
     <<"0">>,
     <<"N","U","L","L">>,
     <<"n","u","l","l">>,
     <<"N","U","L","L",":",":","c","h","a","r","a","c","t","e","r"," ","v","a","r","y","i","n","g">>,
     <<"'","a","n","n","u","l","l","e","d","'">>,
     <<"n","o","w","(",")">>}

InitDefaultCheck ==
    /\ dialect = "postgresql"
    /\ ormv = "int"
    /\ live = ConformingDB("int")
    /\ txdb = live
    /\ txOpen = FALSE
    /\ txFailed = FALSE
    /\ connFailed = FALSE
    /\ pc = "idle"
    /\ sync_db = FALSE
    /\ db_table_names = {}
    /\ scanQ = << >>
    /\ mismatched_tables = {}
    /\ todo = {}
    /\ curTable = ""
    /\ cur = NoCur
    /\ plan = << >>
    /\ stmts = << >>
    /\ log = << >>
    /\ ret = FALSE
    /\ prev = NoPrev
    /\ calls = 0
    /\ failures = 0
    /\ ext = 0
    /\ FilterIdle
    /\ FactoryIdle
    /\ HistoryIdle
    /\ SaveIdle
    /\ TypeCheckIdle
    /\ col_default \in DeclaredDefaults
    /\ col_server_default \in DeclaredDefaults
    /\ db_col_default \in LiveDefaults
    /\ orm_default_val = None
    /\ db_default_val = None
    /\ default_mismatch = FALSE
    /\ default_pc = "start"
    /\ TableCheckIdle

\* lines 154-170: the two values the comparison uses
NormalizeDefaults ==
    /\ default_pc = "start"
    /\ orm_default_val' = OrmDefaultVal([default |-> col_default,
                                         server_default |-> col_server_default])
    /\ db_default_val' = DbDefaultVal(db_col_default)
    /\ default_pc' = "normalized"
    /\ UNCHANGED <<col_default, col_server_default, db_col_default, default_mismatch>>
    /\ UNCHANGED <<syncVars, typeVars, tableVars, saveVars, histVars, factoryVars, filterVars>>

\* lines 174-176
CompareDefaults ==
    /\ default_pc = "normalized"
    /\ default_mismatch' = DefaultMismatch(orm_default_val, db_default_val)
    /\ default_pc' = "compared"
    /\ UNCHANGED <<col_default, col_server_default, db_col_default, orm_default_val,
                   db_default_val>>
    /\ UNCHANGED <<syncVars, typeVars, tableVars, saveVars, histVars, factoryVars, filterVars>>

NextDefaultCheck == NormalizeDefaults \/ CompareDefaults

SpecDefaultCheck == InitDefaultCheck /\ [][NextDefaultCheck]_vars

\* the text is SQL's NULL, in any letter case, with or without a cast
RepresentsSqlNull(d) ==
    LET u == Upper(d) null == <<"N","U","L","L">> IN
    \/ u = null
    \/ Len(u) > Len(null) + 2 /\ SubSeq(u, 1, Len(null) + 2) = null \o <<":",":">>

(* C23: a column without a declared default is not reported when the live   *)
(* default is absent or is text that represents SQL NULL; every other       *)
(* difference between the normalized declared and the normalized live       *)
(* default is reported as a default mismatch.  (The statement of the claim; *)
(* the code excuses every live default that contains the letters NULL.)     *)
C23_DefaultMismatchReported ==
    default_pc = "compared"
       => (default_mismatch
           <=> /\ orm_default_val # db_default_val
               /\ ~(/\ orm_default_val = None
                    /\ db_default_val # None
                    /\ RepresentsSqlNull(db_default_val)))

-----------------------------------------------------------------------------
(* The table-level comparisons taken on their own: primary key, unique      *)
(* constraints and indexes of one declared table against what reflection    *)
(* reports for the live one (lines 200-257).                                 *)

MaxLiveConstraints == 2     \* unique constraints, and indexes, of the live table

DeclaredShapes ==
    {[columns |-> << OrmColumn("a", "Integer", FALSE, TRUE),
                     OrmColumn("b", "Integer", FALSE, bpk) >>,
      constraints |-> uq,
      indexes |-> ix] :
        bpk \in BOOLEAN,
        uq \in {{}, {[name |-> "uq_t1", columns |-> <<"b", "a">>]},
                {[name |-> "uq_t1", columns |-> <<"b", "a">>],
                 [name |-> "uq_b", columns |-> <<"b">>]}},
        ix \in {{}, {[name |-> "ix_t1_b", columns |-> <<"b">>, unique |-> FALSE]}}}

LivePks == {<< >>, <<"a">>, <<"b">>, <<"a", "b">>, <<"b", "a">>}

LiveUniqueConstraints ==
    [name : {"uq_t1", "uq_other"}, column_names : {<<"a", "b">>, <<"b", "a">>}]
    \cup {[name |-> "uq_b", column_names |-> <<"b">>]}

LiveIndexes ==
    [name : {"ix_t1_b", "ix_other"}, column_names : {<<"b">>}, unique : BOOLEAN]
    \cup {[name |-> "ix_a", column_names |-> <<"a">>, unique |-> FALSE]}

UpTo(S, n) == {T \in SUBSET S : Cardinality(T) <= n}

LiveShapes ==
    {[exists |-> TRUE,
      cols |-> [c \in {"a", "b"} |-> LiveColumn("INTEGER", FALSE, None)],
      pk |-> p, uqs |-> u, idx |-> i] :
        p \in LivePks,
        u \in UpTo(LiveUniqueConstraints, MaxLiveConstraints),
        i \in UpTo(LiveIndexes, MaxLiveConstraints)}

TableQueries == {"get_pk_constraint", "get_unique_constraints", "get_indexes"}

InitTableCheck ==
    /\ dialect = "postgresql"
    /\ ormv = "int"
    /\ live = ConformingDB("int")
    /\ txdb = live
    /\ txOpen = FALSE
    /\ txFailed = FALSE
    /\ connFailed = FALSE
    /\ pc = "idle"
    /\ sync_db = FALSE
    /\ db_table_names = {}
    /\ scanQ = << >>
    /\ mismatched_tables = {}
    /\ todo = {}
    /\ curTable = ""
    /\ cur = NoCur
    /\ plan = << >>
    /\ stmts = << >>
    /\ log = << >>
    /\ ret = FALSE
    /\ prev = NoPrev
    /\ calls = 0
    /\ failures = 0
    /\ ext = 0
    /\ FilterIdle
    /\ FactoryIdle
    /\ HistoryIdle
    /\ SaveIdle
    /\ TypeCheckIdle
    /\ DefaultCheckIdle
    /\ chk_tbl \in DeclaredShapes
    /\ chk_tab \in LiveShapes
    /\ chk_failed \in UpTo(TableQueries, 1)
    /\ chk_events = << >>
    /\ chk_pc = "primary_key"

\* lines 202-213
CheckPrimaryKey ==
    /\ chk_pc = "primary_key"
    /\ chk_events' = chk_events
          \o ComparePrimaryKey("t1", chk_tbl, chk_tab, "get_pk_constraint" \in chk_failed)
    /\ chk_pc' = "unique_constraints"
    /\ UNCHANGED <<chk_tbl, chk_tab, chk_failed>>
    /\ UNCHANGED <<syncVars, typeVars, defaultVars, saveVars, histVars, factoryVars, filterVars>>

\* lines 216-234
CheckUniqueConstraints ==
    /\ chk_pc = "unique_constraints"
    /\ chk_events' = chk_events
          \o CompareUniqueConstraints("t1", chk_tbl, chk_tab,
                                      "get_unique_constraints" \in chk_failed)
    /\ chk_pc' = "indexes"
    /\ UNCHANGED <<chk_tbl, chk_tab, chk_failed>>
    /\ UNCHANGED <<syncVars, typeVars, defaultVars, saveVars, histVars, factoryVars, filterVars>>

\* lines 237-257
CheckIndexes ==
    /\ chk_pc = "indexes"
    /\ chk_events' = chk_events
          \o CompareIndexes("t1", chk_tbl, chk_tab, "get_indexes" \in chk_failed)
    /\ chk_pc' = "compared"
    /\ UNCHANGED <<chk_tbl, chk_tab, chk_failed>>
    /\ UNCHANGED <<syncVars, typeVars, defaultVars, saveVars, histVars, factoryVars, filterVars>>

NextTableCheck == CheckPrimaryKey \/ CheckUniqueConstraints \/ CheckIndexes

SpecTableCheck == InitTableCheck /\ [][NextTableCheck]_vars

ChkEvents(ev) == {i \in DOMAIN chk_events : chk_events[i].event = ev}

\* the declared and the live primary-key columns, as sets of names
DeclaredPkNames == {chk_tbl.columns[i].name :
                       i \in {j \in DOMAIN chk_tbl.columns : chk_tbl.columns[j].primary_key}}
LivePkNames == {chk_tab.pk[i] : i \in DOMAIN chk_tab.pk}

(* C24: the diff flags a primary-key mismatch for a table exactly when the  *)
(* set of declared primary-key column names differs from the set of live    *)
(* primary-key column names, whatever the order of the columns; it flags it *)
(* once.                                                                     *)
C24_PrimaryKeySetsCompared ==
    (chk_pc \notin {"idle", "primary_key"} /\ "get_pk_constraint" \notin chk_failed)
       => /\ Cardinality(ChkEvents("primary_key_mismatch"))
                = IF DeclaredPkNames # LivePkNames THEN 1 ELSE 0
          /\ ChkEvents("primary_key_error") = {}

\* declared primary key (a, b), live primary key (b, a): no mismatch
C24_Witness ==
    /\ chk_pc = "compared" /\ "get_pk_constraint" \notin chk_failed
    /\ DeclaredPkNames = {"a", "b"}
    /\ chk_tab.pk = <<"b", "a">>
    /\ ChkEvents("primary_key_mismatch") = {}

-----------------------------------------------------------------------------
\* every column tuple of A covers the columns of some tuple of B, and the
\* other way round
SameColumnSets(A, B) ==
    /\ \A x \in A : \E y \in B : Range(x) = Range(y)
    /\ \A y \in B : \E x \in A : Range(x) = Range(y)

(* C25: each declared and each live unique constraint counts as the sorted  *)
(* tuple of its column names; the table gets a unique-constraint mismatch,  *)
(* one whatever the number of constraints, exactly when the two sets of     *)
(* tuples differ; the order of the columns inside a constraint and the      *)
(* names of the constraints do not matter.                                  *)
C25_UniqueConstraintSetsCompared ==
    (chk_pc \in {"indexes", "compared"} /\ "get_unique_constraints" \notin chk_failed)
       => /\ Cardinality(ChkEvents("unique_constraints_mismatch"))
                = IF SameColumnSets({u.columns : u \in chk_tbl.constraints},
                                    {e.column_names : e \in chk_tab.uqs})
                  THEN 0 ELSE 1
          /\ ChkEvents("unique_constraints_error") = {}

\* declared uq_t1 on (b, a) and uq_b on (b); live uq_other on (a, b) and uq_b
\* on (b): no mismatch
C25_Witness ==
    /\ chk_pc = "compared" /\ "get_unique_constraints" \notin chk_failed
    /\ Cardinality(chk_tbl.constraints) = 2
    /\ chk_tab.uqs = {[name |-> "uq_other", column_names |-> <<"a", "b">>],
                      [name |-> "uq_b", column_names |-> <<"b">>]}
    /\ ChkEvents("unique_constraints_mismatch") = {}

-----------------------------------------------------------------------------
(* C26: the table gets an index mismatch exactly when the set of the sorted *)
(* column tuples of the declared indexes differs from that of the live      *)
(* indexes; indexes on the same columns count as equal whatever their names *)
(* and uniqueness flags.                                                     *)
C26_IndexColumnSetsCompared ==
    (chk_pc = "compared" /\ "get_indexes" \notin chk_failed)
       => /\ Cardinality(ChkEvents("indexes_mismatch"))
                = IF SameColumnSets({i.columns : i \in chk_tbl.indexes},
                                    {e.column_names : e \in chk_tab.idx})
                  THEN 0 ELSE 1
          /\ ChkEvents("indexes_error") = {}

\* declared ix_t1_b on (b), not unique; live ix_other on (b), unique, beside
\* ix_t1_b: no mismatch
C26_Witness ==
    /\ chk_pc = "compared" /\ "get_indexes" \notin chk_failed
    /\ Cardinality(chk_tbl.indexes) = 1
    /\ chk_tab.idx = {[name |-> "ix_other", column_names |-> <<"b">>, unique |-> TRUE],
                      [name |-> "ix_t1_b", column_names |-> <<"b">>, unique |-> FALSE]}
    /\ ChkEvents("indexes_mismatch") = {}

-----------------------------------------------------------------------------
TypeAltersOn(ss, t, c) ==
    {i \in DOMAIN ss : ss[i].op = "alter_type" /\ ss[i].tbl = t /\ ss[i].tgt = c}

\* Phase 2's compatibility check rejects the declared type of column c of the
\* table in hand against its re-read live type                (lines 330-345)
JudgedIncompatible(c) ==
    ~AlterCompatible(ClassName(OrmCol(orm_tables[curTable], c).type),
                     ClassName(cur.cols[c].type))

CompiledDiffer(c) ==
    Compiled(OrmCol(orm_tables[curTable], c).type) # Compiled(cur.cols[c].type)

(* C27 as stated: once the operations of a table are through, a declared    *)
(* column the re-read showed has had a type alteration exactly when the     *)
(* compatibility check rejects its declared type against its re-read live   *)
(* type.  (The statement of the claim; the code also requires the compiled  *)
(* type strings to differ.)                                                  *)
C27_AlterIffIncompatible ==
    (pc = "next_table" /\ ReReadDone)
       => \A c \in OrmColumnNames(orm_tables[curTable]) \cap DOMAIN cur.cols :
             (TypeAltersOn(stmts, curTable, c) # {}) <=> JudgedIncompatible(c)

(* C27, amended: a type alteration is attempted, once, for a declared       *)
(* column present in the re-read live table exactly when the compatibility  *)
(* check rejects the pair of class names and the compiled declared type     *)
(* differs from the compiled live type; no type alteration is issued for a  *)
(* compatible pair, nor for an incompatible pair that compiles to the same  *)
(* type string.                                                              *)
C27_AlterIffIncompatibleAndCompiledDiffer ==
    (pc = "next_table" /\ ReReadDone)
       => \A c \in OrmColumnNames(orm_tables[curTable]) \cap DOMAIN cur.cols :
             Cardinality(TypeAltersOn(stmts, curTable, c))
                = IF JudgedIncompatible(c) /\ CompiledDiffer(c) THEN 1 ELSE 0

\* t2.c is declared String and is VARCHAR in the re-read table: the check
\* rejects string against varchar, both compile to VARCHAR, nothing is altered
C27_Witness ==
    /\ pc = "next_table" /\ ReReadDone /\ curTable = "t2"
    /\ "c" \in DOMAIN cur.cols
    /\ OrmCol(orm_tables["t2"], "c").type = "String" /\ cur.cols["c"].type = "VARCHAR"
    /\ JudgedIncompatible("c")
    /\ TypeAltersOn(stmts, "t2", "c") = {}

-----------------------------------------------------------------------------
(* C28: the compatibility test of the comparison and the one Phase 2 makes  *)
(* before altering give the same verdict on every pair of type names.  (The *)
(* statement of the claim; the comparison accepts a name contained in the   *)
(* other, Phase 2 only an equal name.)                                       *)
C28_SameVerdict ==
    BothChecked => (is_compatible <=> is_compatible_for_alter)

-----------------------------------------------------------------------------
NullableAltersOn(ss, t, c) ==
    {i \in DOMAIN ss : ss[i].op = "alter_nullable" /\ ss[i].tbl = t /\ ss[i].tgt = c}

(* C29: once the operations of a table are through, every declared column   *)
(* the re-read showed with another nullability has had one nullability      *)
(* alteration, DROP NOT NULL when it is declared nullable and SET NOT NULL   *)
(* otherwise, and no other column has had one; the alteration comes after   *)
(* the type alteration of the same column, if there was one, whether that   *)
(* one succeeded or failed.                                                  *)
C29_NullabilityAltered ==
    (pc = "next_table" /\ ReReadDone)
       => \A c \in OrmColumnNames(orm_tables[curTable]) \cap DOMAIN cur.cols :
             LET ocol == OrmCol(orm_tables[curTable], c)
                 alters == NullableAltersOn(stmts, curTable, c)
             IN  IF ocol.nullable = cur.cols[c].nullable THEN alters = {}
                 ELSE /\ Cardinality(alters) = 1
                      /\ \A i \in alters :
                            /\ stmts[i].arg = IF ocol.nullable THEN "DROP NOT NULL"
                                              ELSE "SET NOT NULL"
                            /\ \A j \in TypeAltersOn(stmts, curTable, c) : j < i

\* the type alteration of t1.b failed and its nullability alteration was
\* attempted all the same
C29_Witness ==
    /\ pc = "next_table" /\ ReReadDone /\ curTable = "t1"
    /\ \E j \in TypeAltersOn(stmts, "t1", "b") :
          /\ ~stmts[j].ok
          /\ \E i \in NullableAltersOn(stmts, "t1", "b") : j < i

-----------------------------------------------------------------------------
OpsOn(ss, t, ops) == {i \in DOMAIN ss : ss[i].op \in ops /\ ss[i].tbl = t}

NamedOps(ss, t, op, n) == {i \in OpsOn(ss, t, {op}) : ss[i].tgt = n}

\* no tuple of the re-read set S has the columns of cols
AbsentFrom(cols, S) == ~\E y \in S : Range(y) = Range(cols)

(* C30: once the operations of a table are through, a declared unique       *)
(* constraint (index) has had one add operation exactly when the re-read    *)
(* set of unique constraints (indexes) held no tuple of its columns; these  *)
(* operations come after every column operation of the table, the unique    *)
(* constraints before the indexes.                                           *)
C30_ConstraintsAndIndexesAdded ==
    (pc = "next_table" /\ ReReadDone)
       => LET tbl == orm_tables[curTable] IN
          /\ \A u \in tbl.constraints :
                Cardinality(NamedOps(stmts, curTable, "add_unique", u.name))
                   = IF AbsentFrom(u.columns, cur.uqs) THEN 1 ELSE 0
          /\ \A x \in tbl.indexes :
                Cardinality(NamedOps(stmts, curTable, "add_index", x.name))
                   = IF AbsentFrom(x.columns, cur.idx) THEN 1 ELSE 0
          /\ \A i \in OpsOn(stmts, curTable, {"add_column", "alter_type", "alter_nullable"}),
                j \in OpsOn(stmts, curTable, {"add_unique", "add_index"}) : i < j
          /\ \A i \in OpsOn(stmts, curTable, {"add_unique"}),
                j \in OpsOn(stmts, curTable, {"add_index"}) : i < j

\* t1 lacked column b and with it its unique constraint and its index: the
\* column is added, then the constraint, then the index
C30_Witness ==
    /\ pc = "next_table" /\ ReReadDone /\ curTable = "t1"
    /\ \E i \in NamedOps(stmts, "t1", "add_column", "b"),
          j \in NamedOps(stmts, "t1", "add_unique", "uq_t1"),
          k \in NamedOps(stmts, "t1", "add_index", "ix_t1_b") : i < j /\ j < k

-----------------------------------------------------------------------------
\* the first statement of ss that failed is a query of the re-fetch of t
FirstFailureIsRefetchOf(ss, t) ==
    \E i \in DOMAIN ss :
        /\ ~ss[i].ok /\ ss[i].tgt = "refetch" /\ ss[i].tbl = t
        /\ \A j \in 1..(i - 1) : ss[j].ok

\* no alteration is issued for a table whose re-fetch failed
NoAlterationAfterFailedRefetch ==
    \A t \in TableNames :
       (\E i \in DOMAIN stmts : ~stmts[i].ok /\ stmts[i].tgt = "refetch" /\ stmts[i].tbl = t)
          => AlterationsOn(stmts, t) = {}

(* C31: when the re-fetch of a table fails in Phase 2, no alteration is     *)
(* issued for that table in the run, and the other mismatched tables are    *)
(* still processed: when Phase 2 ends, every operation another mismatched   *)
(* table needs has been attempted.  (The statement of the claim; the code   *)
(* violates its second part.)                                                *)
C31_OnlyThatTableSkipped ==
    \A t \in TableNames :
       (pc = "next_table" /\ todo = {} /\ ext = 0 /\ FirstFailureIsRefetchOf(stmts, t))
          => /\ AlterationsOn(stmts, t) = {}
             /\ \A u \in mismatched_tables \ {t} :
                   LET outstanding == TablePlan(dialect, u, orm_tables[u], Refetched(txdb[u])) IN
                   \A k \in DOMAIN outstanding :
                      \E i \in AlterationsOn(stmts, u) :
                         /\ stmts[i].op = outstanding[k].op
                         /\ stmts[i].tgt = outstanding[k].tgt

-----------------------------------------------------------------------------
NamesOf(S) == {e.name : e \in S}

\* every table, column, constraint and index of the live schema old is in new,
\* under its name
Keeps(old, new) ==
    \A t \in TableNames :
       old[t].exists
          => /\ new[t].exists
             /\ DOMAIN old[t].cols \subseteq DOMAIN new[t].cols
             /\ Range(old[t].pk) \subseteq Range(new[t].pk)
             /\ NamesOf(old[t].uqs) \subseteq NamesOf(new[t].uqs)
             /\ NamesOf(old[t].idx) \subseteq NamesOf(new[t].idx)

C32_StepKeeps == Keeps(live, live')

(* C32: no step of any run drops or renames a table, column, constraint or  *)
(* index of the live database: what is there before a step is there after  *)
(* it, so live elements that are not declared outlast every run.            *)
C32_NothingDropped == [][C32_StepKeeps]_vars

\* after two runs of which the first committed alterations, t1 still has
\* its undeclared column x
C32_Witness ==
    /\ pc = "done" /\ prev.valid /\ prev.sync_db
    /\ IssuedOk(prev.stmts, "commit")
    /\ \E i \in AlterationsOn(prev.stmts, "t1") : prev.stmts[i].ok
    /\ live["t1"].exists /\ "x" \in DOMAIN live["t1"].cols

-----------------------------------------------------------------------------
DDLOps == AlterOps \cup {"create_all", "commit"}

\* the statements of ss that Phase 1 and Phase 2 issue on conn_sync
SyncStatements(ss) == {i \in DOMAIN ss : PhaseOf(ss[i]) \in {3, 4, 5}}

(* C33: a run whose comparison finds no mismatched table executes no DDL    *)
(* statement, not even the bulk create, and opens no transaction; and what  *)
(* Phase 2 re-reads and alters are tables of the mismatched set of the same *)
(* run.                                                                      *)
C33_OnlyMismatchedTouched ==
    /\ (pc \notin {"idle", "list", "scan"} /\ mismatched_tables = {})
          => SyncStatements(stmts) = {}
    /\ \A i \in SyncStatements(stmts) :
          /\ sync_db
          /\ stmts[i].tbl # "" => stmts[i].tbl \in mismatched_tables
    /\ prev.valid
          => \A i \in SyncStatements(prev.stmts) :
                prev.stmts[i].tbl # "" => prev.stmts[i].tbl \in prev.mismatched

\* a run that altered the one mismatched table t2 and left t1 alone, then a
\* run with sync_db that found nothing and issued no statement beyond its
\* queries
C33_Witness ==
    /\ pc = "done" /\ sync_db /\ mismatched_tables = {} /\ ret
    /\ prev.valid /\ prev.sync_db /\ prev.mismatched = {"t2"}
    /\ AlterationsOn(prev.stmts, "t2") # {}
    /\ AlterationsOn(prev.stmts, "t1") = {}

-----------------------------------------------------------------------------
(* C34: the invocation returns True exactly when the comparison found no    *)
(* mismatched table and no exception reached the outermost handler; it      *)
(* returns False whenever a mismatch was found, also with sync_db when      *)
(* every corrective operation succeeded.                                     *)
C34_ReturnValue ==
    pc = "done"
       => /\ ret <=> (mismatched_tables = {} /\ ~TopLevelFailed(stmts))
          /\ (sync_db /\ mismatched_tables # {} /\ AllOk(stmts)) => ~ret

\* a run with sync_db repaired everything it found, committed, left the live
\* schema as declared, and returned False
C34_Witness ==
    /\ pc = "done" /\ sync_db /\ mismatched_tables # {}
    /\ AllOk(stmts) /\ IssuedOk(stmts, "commit")
    /\ AlterationsOn(stmts, "t1") # {}
    /\ live = ConformingDB(ormv)
    /\ ~ret

\* ---------------------------------------------------------------------------
\* save_conversation (lines 508-556) and the session it asks for (505-506)
\* ---------------------------------------------------------------------------

\* compare_and_sync_schema is not running and has left nothing behind
SyncAtRest ==
    /\ dialect = "postgresql"
    /\ ormv = "int"
    /\ live = ConformingDB("int")
    /\ txdb = live
    /\ txOpen = FALSE
    /\ txFailed = FALSE
    /\ connFailed = FALSE
    /\ pc = "idle"
    /\ sync_db = FALSE
    /\ db_table_names = {}
    /\ scanQ = << >>
    /\ mismatched_tables = {}
    /\ todo = {}
    /\ curTable = ""
    /\ cur = NoCur
    /\ plan = << >>
    /\ stmts = << >>
    /\ log = << >>
    /\ ret = FALSE
    /\ prev = NoPrev
    /\ calls = 0
    /\ failures = 0
    /\ ext = 0

\* line 508: @retry(stop=stop_after_attempt(3), ...)
stop_after_attempt == 3

\* what the insert and commit of lines 532-544 can meet in the database
DbAnswers == {"ok", "OperationalError", "IntegrityError", "Exception"}

\* lines 505-506: get_session is declared `async def`, so the call
\* self.get_session() that is not awaited evaluates to a coroutine object and
\* the body `return self.AsyncSessionLocal()` is not run
get_session == "coroutine"

\* `async with mgr as session: body`: an object that is no asynchronous context
\* manager raises TypeError before the body is entered
AsyncWith(mgr, body) == IF mgr = "AsyncSession" THEN body ELSE "TypeError"

\* lines 529-556: one attempt; each except clause logs and re-raises what it caught
SaveAttemptOutcome(answer) == AsyncWith(get_session, answer)

\* lines 508-511: retry_if_exception_type(OperationalError), stop_after_attempt(3)
ShouldRetry(outcome, n) == outcome = "OperationalError" /\ n < stop_after_attempt

\* a caller awaits save_conversation; the database's condition during the call is drawn
CallSave ==
    /\ save_pc = "idle"
    /\ save_db' \in [1..stop_after_attempt -> DbAnswers]
    /\ attempt_number' = 0
    /\ save_raised' = << >>
    /\ save_result' = "none"
    /\ save_rows' = 0
    /\ save_pc' = "attempt"
    /\ UNCHANGED <<syncVars, typeVars, defaultVars, tableVars, histVars, factoryVars, filterVars>>

\* lines 508-556: one attempt, and the decision of the retry decorator after it
\* (reraise=True: the last exception is what the caller sees)
SaveAttempt ==
    /\ save_pc = "attempt"
    /\ LET n == attempt_number + 1
           outcome == SaveAttemptOutcome(save_db[n])
       IN /\ attempt_number' = n
          /\ save_raised' = Append(save_raised, outcome)
          /\ save_rows' = IF outcome = "ok" THEN save_rows + 1 ELSE save_rows
          /\ IF outcome = "ok"
                THEN save_result' = "returned" /\ save_pc' = "done"
                ELSE IF ShouldRetry(outcome, n)
                        THEN save_result' = save_result /\ save_pc' = "attempt"
                        ELSE save_result' = outcome /\ save_pc' = "done"
    /\ UNCHANGED save_db
    /\ UNCHANGED <<syncVars, typeVars, defaultVars, tableVars, histVars, factoryVars, filterVars>>

InitSave ==
    /\ SyncAtRest
    /\ TypeCheckIdle
    /\ DefaultCheckIdle
    /\ TableCheckIdle
    /\ SaveIdle
    /\ HistoryIdle
    /\ FactoryIdle
    /\ FilterIdle

NextSave == CallSave \/ SaveAttempt

SpecSave == InitSave /\ [][NextSave]_vars

\* the attempts the database's answers call for: up to and including the first
\* answer that is no OperationalError, three at most
RECURSIVE AttemptsCalledFor(_, _)
AttemptsCalledFor(db, n) ==
    IF n = stop_after_attempt \/ db[n] # "OperationalError"
    THEN <<db[n]>>
    ELSE <<db[n]>> \o AttemptsCalledFor(db, n + 1)

\* every attempt fails on the session before the database is reached
EveryAttemptRaisesTypeError ==
    save_pc = "done" =>
        /\ save_raised = <<"TypeError">>
        /\ save_result = "TypeError"
        /\ save_rows = 0

MaxHistory == 2

\* the number of add_to_history calls examined
MaxAdds == 6

Message(r, c) == [role |-> r, content |-> c]

SystemMessage == Message("system", 0)

\* the python slice h[-k:] for k >= 0: -0 is 0, so h[-0:] is the whole list
LastSlice(h, k) ==
    IF k = 0 \/ k >= Len(h) THEN h ELSE SubSeq(h, Len(h) - k + 1, Len(h))

\* lines 53-61: the list after add_to_history(role, content)
add_to_history(h, memory, maxh, r, c) ==
    LET appended == Append(h, Message(r, c))
        limit == maxh * 2 + 1
    IN IF memory /\ Len(appended) > limit
       THEN <<appended[1]>> \o LastSlice(appended, limit - 1)
       ELSE appended

\* lines 24-31: the history starts empty, or with the system prompt when one is configured
InitHistory ==
    /\ SyncAtRest
    /\ TypeCheckIdle
    /\ DefaultCheckIdle
    /\ TableCheckIdle
    /\ SaveIdle
    /\ FactoryIdle
    /\ FilterIdle
    /\ conversation_history \in {<< >>, <<SystemMessage>>}
    /\ enable_memory \in BOOLEAN
    /\ max_history \in 0..MaxHistory
    /\ hist_before = << >>
    /\ hist_trimmed = FALSE
    /\ hist_added = 0

\* lines 51-61
AddToHistory ==
    /\ hist_added < MaxAdds
    /\ \E r \in {"user", "assistant"} :
         conversation_history' =
            add_to_history(conversation_history, enable_memory, max_history,
                           r, hist_added + 1)
    /\ hist_before' = conversation_history
    /\ hist_trimmed' = (enable_memory /\ Len(conversation_history) + 1 > max_history * 2 + 1)
    /\ hist_added' = hist_added + 1
    /\ UNCHANGED <<enable_memory, max_history>>
    /\ UNCHANGED <<syncVars, typeVars, defaultVars, tableVars, saveVars, factoryVars, filterVars>>

NextHistory == AddToHistory

SpecHistory == InitHistory /\ [][NextHistory]_vars

\* with a limit of at least one exchange the history stays within the limit
BoundedWhenPositive ==
    (enable_memory /\ max_history >= 1) =>
        Len(conversation_history) <= 2 * max_history + 1

\* C36: with enable_memory on, after any sequence of add_to_history calls the
\* history holds at most 2*max_history+1 messages, for every max_history >= 0
C36_HistoryBounded ==
    enable_memory => Len(conversation_history) <= 2 * max_history + 1

\* s is t with some of its first elements left out
IsSuffix(s, t) ==
    /\ Len(s) <= Len(t)
    /\ s = SubSeq(t, Len(t) - Len(s) + 1, Len(t))

\* a trim that keeps the first message, then the most recent of the others
TrimKeepsFirstAndRecent ==
    LET new == conversation_history
    IN /\ new[1] = hist_before[1]
       /\ new[Len(new)].content = hist_added
       /\ IsSuffix(Tail(new), Tail(hist_before) \o <<new[Len(new)]>>)

\* C37: when add_to_history trims, the message that was at index 0 is still at
\* index 0, the rest is the most recent messages in their original order with
\* the new message last, and only the oldest non-first messages are removed
C37_TrimKeepsFirstAndRecent ==
    hist_trimmed => TrimKeepsFirstAndRecent

\* the same, for limits of at least one exchange
TrimKeepsWhenPositive ==
    (hist_trimmed /\ max_history >= 1) =>
        /\ TrimKeepsFirstAndRecent
        /\ Len(conversation_history) = 2 * max_history + 1

\* ---------------------------------------------------------------------------
\* AgentFactory (factory.py) and the constructor it calls (base_agent.py 10-31)
\* ---------------------------------------------------------------------------

\* the number of agent instances constructed in a run
MaxInstances == 3

Chat == <<"c", "h", "a", "t">>

\* a type name that only register_agent makes known
Tool == <<"t", "o", "o", "l">>

\* the four-letter string that str(None) is
NoneStr == <<"N", "o", "n", "e">>

ConfigPaths == {<<"a">>, <<"b">>}

\* what a caller passes as agent_type (None is the default)
AgentTypeArgs == {None, Chat, Tool, NoneStr}

\* config.agent.type of the configuration file at a path
ConfigAgentType(config_path) == IF config_path = <<"a">> THEN Chat ELSE Tool

\* lines 40 and 55: key = f"{config_path}:{agent_type}"
Key(config_path, agent_type) ==
    config_path \o <<":">> \o (IF agent_type = None THEN NoneStr ELSE agent_type)

\* base_agent.py lines 10-21: ChatAgent and AnalysisAgent define no __init__, and
\* BaseAgent.__init__ evaluates os.getenv at line 17 in a module that never
\* imports os, so constructing either raises NameError; a class registered by
\* register_agent brings its own constructor, which may return or raise
Construct(agent_class, ctor) ==
    IF agent_class \in {"ChatAgent", "AnalysisAgent"} THEN "NameError"
    ELSE IF ctor = "ok" THEN "ok" ELSE "ConstructorError"

FactoryResult(isOk, inst, err, made) ==
    [ok |-> isOk, instance |-> inst, error |-> err, created |-> made]

\* lines 21-35: the instance (numbered fresh) or the exception
create_agent(types, config_path, agent_type, ctor, fresh) ==
    LET effective == IF agent_type = None THEN ConfigAgentType(config_path)
                     ELSE agent_type
    IN IF effective \notin DOMAIN types
       THEN FactoryResult(FALSE, 0, "ValueError", FALSE)
       ELSE LET outcome == Construct(types[effective], ctor)
            IN IF outcome = "ok" THEN FactoryResult(TRUE, fresh, "none", TRUE)
               ELSE FactoryResult(FALSE, 0, outcome, FALSE)

\* get_or_create_agent that constructs on every call
get_or_create_agent_AlwaysCreates(instances, types, config_path, agent_type, ctor, fresh) ==
    LET key == Key(config_path, agent_type)
        made == create_agent(types, config_path, agent_type, ctor, fresh)
    IN [instances |-> IF made.ok THEN With(instances, key, made.instance)
                      ELSE instances,
        result |-> made]

\* lines 37-45: the cache and the result after get_or_create_agent; an exception
\* of create_agent leaves before the assignment of line 43
get_or_create_agent(instances, types, config_path, agent_type, ctor, fresh) ==
    LET key == Key(config_path, agent_type)
    IN IF key \in DOMAIN instances
       THEN [instances |-> instances,
             result |-> FactoryResult(TRUE, instances[key], "none", FALSE)]
       ELSE LET made == create_agent(types, config_path, agent_type, ctor, fresh)
            IN [instances |-> IF made.ok THEN With(instances, key, made.instance)
                              ELSE instances,
                result |-> made]

\* reload_agent that evicts only once the new instance exists
reload_agent_EvictsOnSuccess(instances, types, config_path, agent_type, ctor, fresh) ==
    LET key == Key(config_path, agent_type)
        made == create_agent(types, config_path, agent_type, ctor, fresh)
    IN [instances |-> IF made.ok THEN With(instances, key, made.instance)
                      ELSE instances,
        result |-> made]

\* lines 52-58
reload_agent(instances, types, config_path, agent_type, ctor, fresh) ==
    LET key == Key(config_path, agent_type)
        evicted == IF key \in DOMAIN instances THEN Without(instances, key)
                   ELSE instances
    IN get_or_create_agent(evicted, types, config_path, agent_type, ctor, fresh)

FactoryCall(op, config_path, agent_type, done) ==
    /\ agent_instances' = done.instances
    /\ next_instance' = IF done.result.created THEN next_instance + 1 ELSE next_instance
    /\ fac_last' = [op |-> op, config_path |-> config_path, agent_type |-> agent_type,
                    key |-> Key(config_path, agent_type),
                    ok |-> done.result.ok, instance |-> done.result.instance,
                    error |-> done.result.error, created |-> done.result.created]
    /\ fac_before' = agent_instances
    /\ UNCHANGED agent_types
    /\ UNCHANGED <<syncVars, typeVars, defaultVars, tableVars, saveVars, histVars, filterVars>>

\* lines 16-19
RegisterAgent ==
    /\ Tool \notin DOMAIN agent_types
    /\ agent_types' = agent_types @@ (Tool :> "ToolAgent")
    /\ UNCHANGED <<agent_instances, next_instance, fac_last, fac_before>>
    /\ UNCHANGED <<syncVars, typeVars, defaultVars, tableVars, saveVars, histVars, filterVars>>

\* lines 37-45
GetOrCreateAgent ==
    /\ next_instance <= MaxInstances
    /\ \E config_path \in ConfigPaths, agent_type \in AgentTypeArgs, ctor \in {"ok", "raise"} :
         FactoryCall("get_or_create_agent", config_path, agent_type,
                     get_or_create_agent(agent_instances, agent_types, config_path,
                                         agent_type, ctor, next_instance))

\* lines 52-58
ReloadAgent ==
    /\ next_instance <= MaxInstances
    /\ \E config_path \in ConfigPaths, agent_type \in AgentTypeArgs, ctor \in {"ok", "raise"} :
         FactoryCall("reload_agent", config_path, agent_type,
                     reload_agent(agent_instances, agent_types, config_path,
                                  agent_type, ctor, next_instance))

InitFactory ==
    /\ SyncAtRest
    /\ TypeCheckIdle
    /\ DefaultCheckIdle
    /\ TableCheckIdle
    /\ SaveIdle
    /\ HistoryIdle
    /\ FactoryIdle
    /\ FilterIdle

NextFactory == RegisterAgent \/ GetOrCreateAgent \/ ReloadAgent

SpecFactory == InitFactory /\ [][NextFactory]_vars

InstancesOf(instances) == {instances[k] : k \in DOMAIN instances}

FactoryCalled == fac_last.op # "none"

\* the last call left every entry under another key string as it was
OtherKeysKept ==
    \A k \in (DOMAIN fac_before \cup DOMAIN agent_instances) \ {fac_last.key} :
        /\ k \in DOMAIN fac_before
        /\ k \in DOMAIN agent_instances
        /\ agent_instances[k] = fac_before[k]

\* what the cache holds for a pair of arguments (0: nothing)
EntryOf(instances, config_path, agent_type) ==
    IF Key(config_path, agent_type) \in DOMAIN instances
    THEN instances[Key(config_path, agent_type)] ELSE 0

\* the last call left the entry of every other pair of arguments as it was
OtherPairsKept ==
    \A p \in ConfigPaths, t \in AgentTypeArgs :
        <<p, t>> # <<fac_last.config_path, fac_last.agent_type>> =>
            EntryOf(agent_instances, p, t) = EntryOf(fac_before, p, t)

\* a cached key is answered from the cache; what a call returns is what the
\* cache then holds for the key; a reload that returns has constructed an
\* instance that was not cached before
CacheAnswers ==
    /\ (fac_last.op = "get_or_create_agent" /\ fac_last.key \in DOMAIN fac_before) =>
          /\ agent_instances = fac_before
          /\ fac_last.ok
          /\ fac_last.instance = fac_before[fac_last.key]
          /\ ~fac_last.created
    /\ fac_last.ok =>
          /\ fac_last.key \in DOMAIN agent_instances
          /\ agent_instances[fac_last.key] = fac_last.instance
    /\ (fac_last.op = "reload_agent" /\ fac_last.ok) => fac_last.created
    /\ fac_last.created => fac_last.instance \notin InstancesOf(fac_before)
    /\ \A k1, k2 \in DOMAIN agent_instances :
          agent_instances[k1] = agent_instances[k2] => k1 = k2

\* C38 as stated: get_or_create_agent creates at most one instance per
\* (config_path, agent_type) pair and returns it on every later call with the
\* pair, reload_agent replaces the entry by a newly created instance, and the
\* entries of other pairs are unchanged by both operations
C38_OnePerPair == FactoryCalled => (CacheAnswers /\ OtherPairsKept)

\* C38 amended: the same with the key being the string "config_path:agent_type";
\* entries under other key strings are unchanged by both operations (two pairs
\* that format to one string, such as agent_type None and "None", share an entry)
C38_OnePerKey == FactoryCalled => (CacheAnswers /\ OtherKeysKept)

\* a reload replaced a cached instance while another key stayed cached
C38_Witness ==
    /\ fac_last.op = "reload_agent"
    /\ fac_last.ok
    /\ fac_last.key \in DOMAIN fac_before
    /\ fac_before[fac_last.key] # agent_instances[fac_last.key]
    /\ Cardinality(DOMAIN agent_instances) >= 2

\* a later get_or_create_agent returned the instance that a reload had stored
C38_WitnessCached ==
    /\ fac_last.op = "get_or_create_agent"
    /\ fac_last.key \in DOMAIN fac_before
    /\ fac_last.instance >= 2

\* C39: when agent creation fails, get_or_create_agent leaves the cache
\* unchanged, and reload_agent leaves it without an entry for the key (the
\* previously cached instance is evicted, the others stay)
C39_FailedCreation ==
    (FactoryCalled /\ ~fac_last.ok) =>
        /\ fac_last.error \in {"ValueError", "NameError", "ConstructorError"}
        /\ fac_last.op = "get_or_create_agent" => agent_instances = fac_before
        /\ fac_last.op = "reload_agent" =>
              /\ fac_last.key \notin DOMAIN agent_instances
              /\ agent_instances = Without(fac_before, fac_last.key)

\* a reload of a cached key failed in the constructor
C39_Witness ==
    /\ fac_last.op = "reload_agent"
    /\ ~fac_last.ok
    /\ fac_last.error = "ConstructorError"
    /\ fac_last.key \in DOMAIN fac_before
    /\ fac_last.key \notin DOMAIN agent_instances

\* ---------------------------------------------------------------------------
\* filter_new_data (lines 465-502) and get_unique_constraints (lines 426-463)
\* ---------------------------------------------------------------------------

\* the longest data_list examined
MaxItems == 2

\* the largest number of stored rows examined
MaxRows == 1

ItemColumns == {"id", "name"}

ItemValues == {1, 2}

\* an item maps some of the columns to values
Items == UNION {[cs -> ItemValues] : cs \in SUBSET ItemColumns}

StoredRows == [ItemColumns -> ItemValues]

FilterSchemas ==
    [pk : {{}, {"id"}, {"id", "name"}},
     uqs : SUBSET {{"name"}},
     idx : SUBSET {{"name"}},
     fails : BOOLEAN]

\* lines 426-463: the unique column groups of the table (each a sorted tuple in
\* the code, a set of columns here): the primary key, the unique constraints
\* and the unique indexes; no group when the introspection raises
get_unique_constraints(schema) ==
    IF schema.fails THEN {}
    ELSE (IF schema.pk # {} THEN {schema.pk} ELSE {}) \cup schema.uqs \cup schema.idx

\* lines 486-496: some group whose columns the item all has is matched by a stored row
IsExisting(item, unique_constraints, rows) ==
    \E constraint_columns \in unique_constraints :
        /\ constraint_columns \subseteq DOMAIN item
        /\ \E row \in rows : \A col \in constraint_columns : row[col] = item[col]

\* lines 482-499: the items no stored row matches, in input order
RECURSIVE NewData(_, _, _)
NewData(items, unique_constraints, rows) ==
    IF items = << >> THEN << >>
    ELSE (IF IsExisting(Head(items), unique_constraints, rows) THEN << >>
          ELSE <<Head(items)>>)
         \o NewData(Tail(items), unique_constraints, rows)

\* lines 465-502: the list returned or the exception raised; line 481 enters
\* `async with self.get_session()`
filter_new_data(items, schema, rows) ==
    IF items = << >> THEN [raised |-> "none", value |-> << >>]
    ELSE LET unique_constraints == get_unique_constraints(schema)
         IN IF unique_constraints = {}
            THEN [raised |-> "none", value |-> items]
            ELSE LET entered == AsyncWith(get_session, "entered")
                 IN IF entered = "entered"
                    THEN [raised |-> "none",
                          value |-> NewData(items, unique_constraints, rows)]
                    ELSE [raised |-> entered, value |-> << >>]

InitFilter ==
    /\ SyncAtRest
    /\ TypeCheckIdle
    /\ DefaultCheckIdle
    /\ TableCheckIdle
    /\ SaveIdle
    /\ HistoryIdle
    /\ FactoryIdle
    /\ flt_schema \in FilterSchemas
    /\ flt_rows \in UpTo(StoredRows, MaxRows)
    /\ data_list \in UNION {[1..n -> Items] : n \in 0..MaxItems}
    /\ flt_result = NoFilterResult
    /\ flt_pc = "called"

\* lines 465-502
FilterNewData ==
    /\ flt_pc = "called"
    /\ flt_result' = filter_new_data(data_list, flt_schema, flt_rows)
    /\ flt_pc' = "done"
    /\ UNCHANGED <<flt_schema, flt_rows, data_list>>
    /\ UNCHANGED <<syncVars, typeVars, defaultVars, tableVars, saveVars, histVars, factoryVars>>

NextFilter == FilterNewData

SpecFilter == InitFilter /\ [][NextFilter]_vars

\* the cases that never reach the session: an empty input gives an empty list,
\* and without a unique group the whole input is returned
FilterWithoutSession ==
    (flt_pc = "done" /\ (data_list = << >> \/ get_unique_constraints(flt_schema) = {})) =>
        flt_result = [raised |-> "none", value |-> data_list]

\* whenever a unique group is found for a non-empty input the call raises
FilterRaisesOnSession ==
    (flt_pc = "done" /\ data_list # << >> /\ get_unique_constraints(flt_schema) # {}) =>
        flt_result = [raised |-> "TypeError", value |-> << >>]

\* C40: filter_new_data returns a sub-sequence of its input in input order, an
\* item being dropped exactly when some unique column group whose columns the
\* item all has is matched by a stored row; an empty input gives an empty
\* result, and without a unique group (none found, or the introspection
\* failed) the whole input is returned
C40_FilterDropsExisting ==
    flt_pc = "done" =>
        /\ flt_result.raised = "none"
        /\ flt_result.value =
              NewData(data_list, get_unique_constraints(flt_schema), flt_rows)

====
